---- MODULE Spec2Model ----
(***************************************************************************)
(* Checkers engine of devrishabh28/checkers: Board (move generation with   *)
(* capture chains, move application, winner detection), Game (selection,   *)
(* forced capture, turn change, automated reply, history) and the          *)
(* alpha-beta minimax search.                                              *)
(*                                                                         *)
(* A Piece object is identified by the cell it stands on: the code keeps   *)
(* piece.row/piece.col equal to the piece's slot in the grid, and no grid  *)
(* is mutated while a list of pieces taken from it is in use.              *)
(***************************************************************************)
EXTENDS Integers, Sequences, FiniteSets, TLC

\* ------------------------------------------------------------------------
\* constants.py
\* ------------------------------------------------------------------------
ROWS == 8
COLS == 8
WHITE == "WHITE"
BLACK == "BLACK"

\* ------------------------------------------------------------------------
\* Python values
\* ------------------------------------------------------------------------
\* the integer 0 that marks an empty cell of the grid
Empty == [color |-> "none", king |-> FALSE]
\* Python's None where the other values are cells or boards (no selection,
\* no best move): a selection is None or a cell, a best move is None or
\* Some(board)
None == <<>>
Some(x) == <<x>>
\* Python's None where the other values are colours
NoColor == "None"

max(a, b) == IF a >= b THEN a ELSE b
min(a, b) == IF a <= b THEN a ELSE b

\* x in lst
InList(x, lst) == \E i \in 1..Len(lst) : lst[i] = x

\* A dict is the sequence of its <<key, value>> items in insertion order.
dict_has(d, k) == \E i \in 1..Len(d) : d[i][1] = k
dict_get(d, k) == d[CHOOSE i \in 1..Len(d) : d[i][1] = k][2]
dict_keys(d) == {d[i][1] : i \in 1..Len(d)}
dict_set(d, k, v) ==
    IF dict_has(d, k)
    THEN [i \in 1..Len(d) |-> IF d[i][1] = k THEN <<k, v>> ELSE d[i]]
    ELSE Append(d, <<k, v>>)
\* d.update(e): items of e in order, replacing the value of a key already in d
RECURSIVE dict_update(_, _)
dict_update(d, e) ==
    IF e = <<>> THEN d
    ELSE dict_update(dict_set(d, e[1][1], e[1][2]), Tail(e))

\* ------------------------------------------------------------------------
\* Piece and Board
\* ------------------------------------------------------------------------
Piece(color) == [color |-> color, king |-> FALSE]

\* Board.create_board: the starting grid
create_board ==
    [row \in 0..(ROWS - 1) |->
        [column \in 0..(COLS - 1) |->
            IF column % 2 = ((row + 1) % 2)
            THEN IF row <= 2 THEN Piece(BLACK)
                 ELSE IF row >= 5 THEN Piece(WHITE)
                 ELSE Empty
            ELSE Empty]]

\* Board.__init__
NewBoard ==
    [board |-> create_board,
     black_left |-> 12, white_left |-> 12,
     black_kings |-> 0, white_kings |-> 0]

\* Board.get_piece
get_piece(b, row, col) == b.board[row][col]

\* the cells in the order of the nested loops over the grid (row-major)
AllCells == [i \in 1..(ROWS * COLS) |-> <<(i - 1) \div COLS, (i - 1) % COLS>>]

\* Board.get_all_pieces
get_all_pieces(b, color) ==
    SelectSeq(AllCells, LAMBDA p : get_piece(b, p[1], p[2]).color = color)

\* Board.evaluate, times two (the code's value is a multiple of 0.5)
evaluate2(b) ==
    (2 * b.black_left + b.black_kings) - (2 * b.white_left + b.white_kings)

\* Board.move without elevate_to_king: the variant C24 has to tell from the
\* code
move_without_crowning(b, p, row, col) ==
    [b EXCEPT !.board = [r \in 0..(ROWS - 1) |-> [c \in 0..(COLS - 1) |->
                            IF <<r, c>> = <<row, col>> THEN get_piece(b, p[1], p[2])
                            ELSE IF <<r, c>> = p THEN get_piece(b, row, col)
                            ELSE b.board[r][c]]]]

\* Board.move with Piece.move and Piece.elevate_to_king.  The king flag is
\* set before the colour test reads it, so the test's first branch is dead.
move(b, p, row, col) ==
    LET piece  == get_piece(b, p[1], p[2])
        target == get_piece(b, row, col)
        swapped == [r \in 0..(ROWS - 1) |-> [c \in 0..(COLS - 1) |->
                      IF <<r, c>> = <<row, col>> THEN piece
                      ELSE IF <<r, c>> = p THEN target
                      ELSE b.board[r][c]]]
    IN  IF row = ROWS - 1 \/ row = 0
        THEN LET kinged == [piece EXCEPT !.king = TRUE]
                 grid == [swapped EXCEPT ![row][col] = kinged]
             IN  IF kinged.color = WHITE /\ ~kinged.king
                 THEN [b EXCEPT !.board = grid, !.white_kings = @ + 1]
                 ELSE [b EXCEPT !.board = grid, !.black_kings = @ + 1]
        ELSE [b EXCEPT !.board = swapped]

\* remove_loop counting every removed piece as a Dark one: the variant C9
\* has to tell from the code
remove_loop_dark(b, src, pieces) ==
    [b EXCEPT !.board = [r \in 0..(ROWS - 1) |-> [c \in 0..(COLS - 1) |->
                            IF InList(<<r, c>>, pieces) THEN Empty ELSE b.board[r][c]]],
              !.black_left = @ - Len(pieces)]

\* Board.remove: pieces is a list of cells of pieces of the grid; the colour
\* is read from the Piece object, i.e. from the grid the list was built on
RECURSIVE remove_loop(_, _, _)
remove_loop(b, src, pieces) ==
    IF pieces = <<>> THEN b
    ELSE LET p == Head(pieces)
             grid == [b.board EXCEPT ![p[1]][p[2]] = Empty]
         IN  remove_loop(IF src[p[1]][p[2]].color = WHITE
                         THEN [b EXCEPT !.board = grid, !.white_left = @ - 1]
                         ELSE [b EXCEPT !.board = grid, !.black_left = @ - 1],
                         src, Tail(pieces))

\* remove taking the newest piece of the list only: the variant C16 has to
\* tell from the code
remove_newest(b, pieces) == remove_loop(b, b.board, SubSeq(pieces, 1, 1))

remove(b, pieces) == remove_loop(b, b.board, pieces)

\* ------------------------------------------------------------------------
\* Board._search_left / Board._search_right
\* The two methods differ only in the side they walk to: search is their
\* common body, with dcol = -1 for _search_left (column test left < 0,
\* left -= 1) and dcol = 1 for _search_right (right >= COLS, right += 1).
\* The extra argument last is the loop variable of the same name: a call
\* with start = r, the current column and last is the rest of the for loop.
\* A captured-piece list holds the cells of the pieces, newest first.
\* ------------------------------------------------------------------------
RECURSIVE search(_, _, _, _, _, _, _, _, _, _)
RECURSIVE continue_chain(_, _, _, _, _, _)

\* the recursive calls made after a capture that landed on cell, in the
\* code's order: each adds its result to moves with moves.update and is
\* given skipped = moves[cell] as it is at the time of the call (the key
\* cell is in moves from the start: the landing is stored before the calls)
continue_chain(b, is_king, color, cell, calls, moves) ==
    IF calls = <<>> \/ ~dict_has(moves, cell) THEN moves
    ELSE LET c == Head(calls)
         IN  continue_chain(b, is_king, color, cell, Tail(calls),
                 dict_update(moves,
                     search(b, is_king, cell[1] + c.step, c.stop, c.step, color,
                            cell[2] + c.dcol, c.dcol, dict_get(moves, cell), <<>>)))

\* chain_calls with the four calls for every piece: the variant C5 has to
\* tell from the code
chain_calls_all(is_king, r, step) ==
    LET row  == IF step = -1 THEN max(r - 3, -1) ELSE min(r + 3, ROWS)
        back == IF step = -1 THEN min(r + 3, ROWS) ELSE max(r - 3, -1)
    IN  << [step |-> step, stop |-> row, dcol |-> -1],
           [step |-> step, stop |-> row, dcol |-> 1],
           [step |-> -step, stop |-> back, dcol |-> -1],
           [step |-> -step, stop |-> back, dcol |-> 1] >>

\* the calls after a capture landing on row r while walking with step
chain_calls(is_king, r, step) ==
    LET row  == IF step = -1 THEN max(r - 3, -1) ELSE min(r + 3, ROWS)
        back == IF step = -1 THEN min(r + 3, ROWS) ELSE max(r - 3, -1)
        same == << [step |-> step, stop |-> row, dcol |-> -1],
                   [step |-> step, stop |-> row, dcol |-> 1] >>
    IN  IF is_king
        THEN same \o << [step |-> -step, stop |-> back, dcol |-> -1],
                        [step |-> -step, stop |-> back, dcol |-> 1] >>
        ELSE same

\* search with the captured pieces listed oldest first: the variant C19 has
\* to tell from the code
search_oldest_first(b, is_king, start, stop, step, color, col, dcol, skipped, last) ==
    LET done    == \/ (step = -1 /\ start <= stop) \/ (step = 1 /\ start >= stop)
                   \/ (dcol = -1 /\ col < 0) \/ (dcol = 1 /\ col >= COLS)
        current == get_piece(b, start, col)
        seen    == InList(<<start, col>>, skipped)
        free    == ~done /\ ~seen /\ current = Empty
        piece   == ~done /\ ~seen /\ current # Empty
    IN  CASE done -> <<>>
          [] ~done /\ seen -> <<>>
          [] free /\ last = <<>> /\ skipped # <<>> -> <<>>
          [] free /\ last = <<>> /\ skipped = <<>> -> << <<<<start, col>>, last>> >>
          [] free /\ last # <<>> ->
                 continue_chain(b, is_king, color, <<start, col>>,
                                chain_calls(is_king, start, step),
                                << <<<<start, col>>, skipped \o last>> >>)
          [] piece /\ current.color = color -> <<>>
          [] piece /\ current.color # color ->
                 search(b, is_king, start + step, stop, step, color, col + dcol, dcol,
                        skipped, <<<<start, col>>>>)

\* search putting the piece just jumped on the list twice: the variant C20
\* has to tell from the code
search_listing_twice(b, is_king, start, stop, step, color, col, dcol, skipped, last) ==
    LET done    == \/ (step = -1 /\ start <= stop) \/ (step = 1 /\ start >= stop)
                   \/ (dcol = -1 /\ col < 0) \/ (dcol = 1 /\ col >= COLS)
        current == get_piece(b, start, col)
        seen    == InList(<<start, col>>, skipped)
        free    == ~done /\ ~seen /\ current = Empty
        piece   == ~done /\ ~seen /\ current # Empty
    IN  CASE done -> <<>>
          [] ~done /\ seen -> <<>>
          [] free /\ last = <<>> /\ skipped # <<>> -> <<>>
          [] free /\ last = <<>> /\ skipped = <<>> -> << <<<<start, col>>, last>> >>
          [] free /\ last # <<>> ->
                 continue_chain(b, is_king, color, <<start, col>>,
                                chain_calls(is_king, start, step),
                                << <<<<start, col>>, last \o last \o skipped>> >>)
          [] piece /\ current.color = color -> <<>>
          [] piece /\ current.color # color ->
                 search(b, is_king, start + step, stop, step, color, col + dcol, dcol,
                        skipped, <<<<start, col>>>>)

\* one turn of the for loop, as the table of its cases: done is the end of
\* range() or the break on the column, seen is "current in skipped"
search(b, is_king, start, stop, step, color, col, dcol, skipped, last) ==
    LET done    == \/ (step = -1 /\ start <= stop) \/ (step = 1 /\ start >= stop)
                   \/ (dcol = -1 /\ col < 0) \/ (dcol = 1 /\ col >= COLS)
        current == get_piece(b, start, col)
        seen    == InList(<<start, col>>, skipped)
        free    == ~done /\ ~seen /\ current = Empty
        piece   == ~done /\ ~seen /\ current # Empty
    IN  CASE done -> <<>>
          [] ~done /\ seen -> <<>>
          [] free /\ last = <<>> /\ skipped # <<>> -> <<>>
          [] free /\ last = <<>> /\ skipped = <<>> -> << <<<<start, col>>, last>> >>
          [] free /\ last # <<>> ->
                 continue_chain(b, is_king, color, <<start, col>>,
                                chain_calls(is_king, start, step),
                                << <<<<start, col>>, last \o skipped>> >>)
          [] piece /\ current.color = color -> <<>>
          [] piece /\ current.color # color ->
                 search(b, is_king, start + step, stop, step, color, col + dcol, dcol,
                        skipped, <<<<start, col>>>>)

search_left(b, is_king, start, stop, step, color, left, skipped) ==
    search(b, is_king, start, stop, step, color, left, -1, skipped, <<>>)

search_right(b, is_king, start, stop, step, color, right, skipped) ==
    search(b, is_king, start, stop, step, color, right, 1, skipped, <<>>)

\* all_directions walking up and down for every piece: the variant C4 has to
\* tell from the code
all_directions_both(b, piece, row, left, right) ==
    dict_update(
        dict_update(
            dict_update(
                search_left(b, piece.king, row - 1, max(row - 3, -1), -1, piece.color, left, <<>>),
                search_right(b, piece.king, row - 1, max(row - 3, -1), -1, piece.color, right, <<>>)),
            search_left(b, piece.king, row + 1, min(row + 3, ROWS), 1, piece.color, left, <<>>)),
        search_right(b, piece.king, row + 1, min(row + 3, ROWS), 1, piece.color, right, <<>>))

\* Board.get_valid_moves, the dict moves before it is filtered
all_directions(b, piece, row, left, right) ==
    dict_update(
        dict_update(
            dict_update(
                IF piece.color = WHITE \/ piece.king
                THEN search_left(b, piece.king, row - 1, max(row - 3, -1), -1, piece.color, left, <<>>)
                ELSE <<>>,
                IF piece.color = WHITE \/ piece.king
                THEN search_right(b, piece.king, row - 1, max(row - 3, -1), -1, piece.color, right, <<>>)
                ELSE <<>>),
            IF piece.color = BLACK \/ piece.king
            THEN search_left(b, piece.king, row + 1, min(row + 3, ROWS), 1, piece.color, left, <<>>)
            ELSE <<>>),
        IF piece.color = BLACK \/ piece.king
        THEN search_right(b, piece.king, row + 1, min(row + 3, ROWS), 1, piece.color, right, <<>>)
        ELSE <<>>)

\* capturing_only without the filter: the variant C2 has to tell from the code
capturing_only_unfiltered(moves) ==
    <<moves, \E i \in 1..Len(moves) : Len(moves[i][2]) > 0>>

\* Board.get_valid_moves, from "for key in moves" on
capturing_only(moves) ==
    IF \E i \in 1..Len(moves) : Len(moves[i][2]) > 0
    THEN <<SelectSeq(moves, LAMBDA it : Len(it[2]) > 0), TRUE>>
    ELSE <<moves, FALSE>>

\* Board.get_valid_moves: the pair (moves, flag); p is the piece's cell
get_valid_moves(b, p) ==
    capturing_only(all_directions(b, get_piece(b, p[1], p[2]), p[1], p[2] - 1, p[2] + 1))

\* Board.get_all_moves: extend() with the pair returned by get_valid_moves
\* adds the pair's two components, the dict and the flag, for every piece
RECURSIVE extend_all(_, _)
extend_all(b, pieces) ==
    IF pieces = <<>> THEN <<>>
    ELSE get_valid_moves(b, Head(pieces)) \o extend_all(b, Tail(pieces))

Board_get_all_moves(b, color) == extend_all(b, get_all_pieces(b, color))

\* winner without its last test: the variant C8 has to tell from the code
winner_three_tests(b) ==
    IF b.white_left <= 0 THEN BLACK
    ELSE IF b.black_left < 0 THEN WHITE
    ELSE IF Len(Board_get_all_moves(b, WHITE)) = 0 THEN BLACK
    ELSE NoColor

\* Board.winner
winner(b) ==
    IF b.white_left <= 0 THEN BLACK
    ELSE IF b.black_left < 0 THEN WHITE
    ELSE IF Len(Board_get_all_moves(b, WHITE)) = 0 THEN BLACK
    ELSE IF Len(Board_get_all_moves(b, BLACK)) = 0 THEN WHITE
    ELSE NoColor

\* ------------------------------------------------------------------------
\* Search scores.  The code's scores are evaluate() or evaluate() / k for an
\* integer k >= 1, and +-math.inf; a score is the fraction n / d with d > 0,
\* and d = 0 for the infinities.
\* ------------------------------------------------------------------------
NegInf == [n |-> -1, d |-> 0]
PosInf == [n |-> 1, d |-> 0]
Leq(x, y) == IF x.d = 0 /\ y.d = 0 THEN x.n <= y.n ELSE x.n * y.d <= y.n * x.d
Geq(x, y) == Leq(y, x)
ScoreMax(x, y) == IF Leq(y, x) THEN x ELSE y
ScoreMin(x, y) == IF Leq(x, y) THEN x ELSE y

\* Game.prepare_board_state
prepare_board_state(grid) ==
    [r \in 0..(ROWS - 1) |-> [c \in 0..(COLS - 1) |->
        IF grid[r][c] = Empty THEN "0"
        ELSE IF grid[r][c].color = WHITE THEN "0"
        ELSE IF grid[r][c].king THEN "BK"
        ELSE "B"]]

\* list.index
index(lst, x) ==
    (CHOOSE i \in 1..Len(lst) : lst[i] = x /\ \A j \in 1..(i - 1) : lst[j] # x) - 1

\* ------------------------------------------------------------------------
\* minimax.py
\* ------------------------------------------------------------------------
\* simulate_move on temp_board, a copy of b; skip holds pieces of b
simulate_move(p, mv, b, skip) ==
    IF skip # <<>>
    THEN remove_loop(move(b, p, mv[1], mv[2]), b.board, skip)
    ELSE move(b, p, mv[1], mv[2])

\* any_skipped looking at the first piece only: the variant C3 has to tell
\* from the code
any_skipped_first(b, pieces) ==
    pieces # <<>> /\ get_valid_moves(b, Head(pieces))[2]

\* get_all_moves, first loop
RECURSIVE any_skipped(_, _)
any_skipped(b, pieces) ==
    IF pieces = <<>> THEN FALSE
    ELSE IF get_valid_moves(b, Head(pieces))[2] THEN TRUE
    ELSE any_skipped(b, Tail(pieces))

\* get_all_moves, the loop over valid_moves.items()
RECURSIVE boards_of(_, _, _)
boards_of(b, p, items) ==
    IF items = <<>> THEN <<>>
    ELSE <<simulate_move(p, items[1][1], b, items[1][2])>> \o boards_of(b, p, Tail(items))

\* boards_of_piece without the test "if skp and not skipped": the variant C21
\* has to tell from the code
boards_of_piece_unforced(b, p, skp, vm) == boards_of(b, p, vm[1])

\* get_all_moves, the body of the second loop for a piece whose
\* get_valid_moves returned vm
boards_of_piece(b, p, skp, vm) ==
    IF skp /\ ~vm[2] THEN <<>> ELSE boards_of(b, p, vm[1])

\* get_all_moves, second loop
RECURSIVE collect_moves(_, _, _)
collect_moves(b, pieces, skp) ==
    IF pieces = <<>> THEN <<>>
    ELSE boards_of_piece(b, Head(pieces), skp, get_valid_moves(b, Head(pieces)))
         \o collect_moves(b, Tail(pieces), skp)

get_all_moves(b, color) ==
    collect_moves(b, get_all_pieces(b, color), any_skipped(b, get_all_pieces(b, color)))

\* terminal_score dividing by the age of the matching snapshot, index + 1:
\* the variant C23 has to tell from the code
terminal_score_by_age(position, history) ==
    IF InList(prepare_board_state(position.board), history)
    THEN [n |-> evaluate2(position),
          d |-> 2 * (index(history, prepare_board_state(position.board)) + 1)]
    ELSE [n |-> evaluate2(position), d |-> 2]

\* minimax, the score of a terminal node
terminal_score(position, history) ==
    IF InList(prepare_board_state(position.board), history)
    THEN [n |-> evaluate2(position),
          d |-> 2 * (Len(history) - index(history, prepare_board_state(position.board)))]
    ELSE [n |-> evaluate2(position), d |-> 2]

\* minimax returns <<score, best move>>; of game it uses board_history only.
\* minimax_loop is the for loop from the i-th move on, loop_body its body
\* once the recursive call has returned score.
RECURSIVE minimax(_, _, _, _, _, _)
RECURSIVE minimax_loop(_, _, _, _, _, _, _, _, _)
RECURSIVE loop_body(_, _, _, _, _, _, _, _, _, _)

\* loop_body with the test of the cutoff turned round, alpha <= beta: the
\* variant C26 has to tell from the code
loop_body_reversed(moves, i, depth, max_player, history, alpha, beta, best_score, best_move, score) ==
    LET better == IF max_player THEN Geq(score, best_score) ELSE Leq(score, best_score)
        bs == IF better THEN score ELSE best_score
        bm == IF better THEN Some(moves[i]) ELSE best_move
        a  == IF max_player THEN ScoreMax(alpha, bs) ELSE alpha
        bt == IF max_player THEN beta ELSE ScoreMin(beta, bs)
    IN  IF Leq(a, bt) THEN <<bs, bm>>
        ELSE minimax_loop(moves, i + 1, depth, max_player, history, a, bt, bs, bm)

loop_body(moves, i, depth, max_player, history, alpha, beta, best_score, best_move, score) ==
    LET better == IF max_player THEN Geq(score, best_score) ELSE Leq(score, best_score)
        bs == IF better THEN score ELSE best_score
        bm == IF better THEN Some(moves[i]) ELSE best_move
        a  == IF max_player THEN ScoreMax(alpha, bs) ELSE alpha
        bt == IF max_player THEN beta ELSE ScoreMin(beta, bs)
    IN  IF Leq(bt, a) THEN <<bs, bm>>
        ELSE minimax_loop(moves, i + 1, depth, max_player, history, a, bt, bs, bm)

minimax_loop(moves, i, depth, max_player, history, alpha, beta, best_score, best_move) ==
    IF i > Len(moves) THEN <<best_score, best_move>>
    ELSE loop_body(moves, i, depth, max_player, history, alpha, beta, best_score, best_move,
                   minimax(moves[i], depth - 1, ~max_player, history, alpha, beta)[1])

\* minimax starting its loop with the position itself as best move: the
\* variant C11 has to tell from the code
minimax_from_position(position, depth, max_player, history, alpha, beta) ==
    IF depth = 0 \/ winner(position) # NoColor
    THEN <<terminal_score(position, history), Some(position)>>
    ELSE minimax_loop(get_all_moves(position, IF max_player THEN BLACK ELSE WHITE),
                      1, depth, max_player, history, alpha, beta,
                      IF max_player THEN NegInf ELSE PosInf, Some(position))

minimax(position, depth, max_player, history, alpha, beta) ==
    IF depth = 0 \/ winner(position) # NoColor
    THEN <<terminal_score(position, history), Some(position)>>
    ELSE minimax_loop(get_all_moves(position, IF max_player THEN BLACK ELSE WHITE),
                      1, depth, max_player, history, alpha, beta,
                      IF max_player THEN NegInf ELSE PosInf, None)

\* ------------------------------------------------------------------------
\* Game.  A game g is the record of the fields of the Game object that the
\* core logic uses (board, turn, selected, valid_moves, board_history, ai).
\* ------------------------------------------------------------------------
\* the constructor's arguments ai_intelligence and history_length
ai_intelligence == 2
history_length == 2

\* Game._init, with the constructor's ai argument
NewGame(ai_arg) ==
    [board |-> NewBoard, turn |-> WHITE, selected |-> None,
     valid_moves |-> <<>>, board_history |-> <<>>, ai |-> ai_arg]

\* Game.winner
Game_winner(g) == winner(g.board)

\* Game.get_skip_status
get_skip_status(g, color) == any_skipped(g.board, get_all_pieces(g.board, color))

\* push_history without the pop(): the variant C13 has to tell from the code
push_history_unbounded(history, temp_board) == <<temp_board>> \o history

\* Game.ai_move, the history after [temp_board] + self.board_history and pop()
push_history(history, temp_board) ==
    IF Len(history) + 1 > history_length
    THEN SubSeq(<<temp_board>> \o history, 1, Len(history))
    ELSE <<temp_board>> \o history

RECURSIVE change_turn(_)
RECURSIVE adopt(_, _)
RECURSIVE ai_move(_)

\* Game.ai_move, after minimax has returned new_board
adopt(g, new_board) ==
    IF new_board = None THEN g
    ELSE change_turn([g EXCEPT !.board = new_board[1],
                               !.board_history = push_history(g.board_history,
                                                     prepare_board_state(new_board[1].board))])

\* Game.ai_move
ai_move(g) ==
    adopt(g, minimax(g.board, ai_intelligence, TRUE, g.board_history, NegInf, PosInf)[2])

\* change_turn without the call of ai_move: the variant C17 has to tell from
\* the code
change_turn_unanswered(g) ==
    [g EXCEPT !.valid_moves = <<>>, !.selected = None,
              !.turn = IF g.turn = WHITE THEN BLACK ELSE WHITE]

\* Game._change_turn
change_turn(g) ==
    IF g.turn = WHITE
    THEN IF g.ai
         THEN ai_move([g EXCEPT !.valid_moves = <<>>, !.selected = None, !.turn = BLACK])
         ELSE [g EXCEPT !.valid_moves = <<>>, !.selected = None, !.turn = BLACK]
    ELSE [g EXCEPT !.valid_moves = <<>>, !.selected = None, !.turn = WHITE]

\* Game_move without the test of the destination map: the selected piece
\* goes to any empty cell; the variant C18 has to tell from the code
Game_move_anywhere(g, row, col) ==
    IF g.selected # None /\ get_piece(g.board, row, col) = Empty
    THEN [g |-> change_turn([g EXCEPT !.board = move(g.board, g.selected, row, col)]),
          result |-> TRUE]
    ELSE [g |-> g, result |-> FALSE]

\* Game._move: the game after the call and the returned flag
Game_move(g, row, col) ==
    IF g.selected # None /\ get_piece(g.board, row, col) = Empty
                         /\ dict_has(g.valid_moves, <<row, col>>)
    THEN [g |-> change_turn([g EXCEPT !.board =
                   IF dict_get(g.valid_moves, <<row, col>>) # <<>>
                   THEN remove(move(g.board, g.selected, row, col),
                               dict_get(g.valid_moves, <<row, col>>))
                   ELSE move(g.board, g.selected, row, col)]),
          result |-> TRUE]
    ELSE [g |-> g, result |-> FALSE]

\* select_own without the forced-capture test: the variant C1 has to tell
\* from the code
select_own_unforced(g, row, col, skip_stat, vm) ==
    [g |-> [g EXCEPT !.selected = <<row, col>>, !.valid_moves = vm[1]], ret |-> TRUE]

\* Game.select, the branch of a piece of the side to move: skip_stat is the
\* result of get_skip_status, vm of get_valid_moves
select_own(g, row, col, skip_stat, vm) ==
    IF skip_stat /\ ~vm[2]
    THEN [g |-> [g EXCEPT !.selected = None, !.valid_moves = <<>>], ret |-> FALSE]
    ELSE [g |-> [g EXCEPT !.selected = <<row, col>>, !.valid_moves = vm[1]], ret |-> TRUE]

\* Game.select from "piece = self.board.get_piece(row, col)" on
select_piece(g, row, col) ==
    IF get_piece(g.board, row, col) # Empty /\ get_piece(g.board, row, col).color = g.turn
    THEN select_own(g, row, col, get_skip_status(g, g.turn),
                    get_valid_moves(g.board, <<row, col>>))
    ELSE [g |-> g, ret |-> FALSE]

\* Game.select: the game after the call, the returned flag, and whether the
\* call's _move performed a move.  The nested call's result is discarded and
\* the code after the if block runs in every case.
RECURSIVE select(_, _, _)

\* finish_select returning true for every call that moved: the variant C15
\* has to tell from the code
finish_select_moved(r, moved) ==
    [g |-> r.g, ret |-> r.ret \/ moved, moved |-> moved]

\* the value of a call: r is the result of the code after the if block
finish_select(r, moved) ==
    [g |-> r.g, ret |-> r.ret, moved |-> moved]

\* after_move without the clearing of the selection when _move has failed:
\* the variant C14 has to tell from the code
after_move_keeping(g, row, col, mv) ==
    IF ~mv.result
    THEN finish_select(select_piece(g, row, col), FALSE)
    ELSE finish_select(select_piece(mv.g, row, col), TRUE)

\* the if block's body once _move has returned mv
after_move(g, row, col, mv) ==
    IF ~mv.result
    THEN finish_select(
             select_piece(select([g EXCEPT !.selected = None, !.valid_moves = <<>>], row, col).g,
                          row, col),
             FALSE)
    ELSE finish_select(select_piece(mv.g, row, col), TRUE)

\* select keeping, after a move, the piece and the map it had before: the
\* variant C25 has to tell from the code
select_stale(g, row, col) ==
    IF g.selected # None /\ Game_move(g, row, col).result
    THEN finish_select([g |-> [Game_move(g, row, col).g EXCEPT !.selected = g.selected,
                                                          !.valid_moves = g.valid_moves],
                        ret |-> TRUE], TRUE)
    ELSE IF g.selected # None
         THEN after_move(g, row, col, Game_move(g, row, col))
         ELSE finish_select(select_piece(g, row, col), FALSE)

select(g, row, col) ==
    IF g.selected # None
    THEN after_move(g, row, col, Game_move(g, row, col))
    ELSE finish_select(select_piece(g, row, col), FALSE)

\* ------------------------------------------------------------------------
\* The state machine: Game.run hands the clicks on board cells to
\* Game.select while the game has no winner.  A session starts with a
\* recorded sequence of clicks (possibly empty) and goes on with up to
\* MaxClicks arbitrary clicks.
\* ------------------------------------------------------------------------
MaxClicks == 2

\* recorded clicks <<row, column>>, automated opponent disabled
ScriptsHuman ==
    { <<>>,
      \* a capture is forced while other pieces have plain steps
      <<<<5,2>>, <<4,1>>, <<2,3>>, <<3,2>>>>,
      \* a game that ends with no Light piece left
      <<<<5,4>>, <<4,3>>, <<2,1>>, <<3,0>>, <<6,3>>, <<5,4>>, <<1,0>>, <<2,1>>, <<5,2>>, <<4,1>>,
        <<3,0>>, <<5,2>>, <<7,4>>, <<6,3>>, <<5,2>>, <<7,4>>, <<7,2>>, <<6,3>>, <<7,4>>, <<3,4>>,
        <<5,4>>, <<4,5>>, <<2,1>>, <<3,2>>, <<5,6>>, <<4,7>>, <<3,4>>, <<7,4>>, <<6,7>>, <<5,6>>,
        <<2,7>>, <<3,6>>, <<5,0>>, <<4,1>>, <<3,2>>, <<5,0>>, <<7,6>>, <<6,7>>, <<5,0>>, <<7,2>>,
        <<5,6>>, <<4,5>>, <<3,6>>, <<5,4>>, <<4,7>>, <<3,6>>, <<2,5>>, <<4,7>>, <<6,7>>, <<5,6>>,
        <<4,7>>, <<6,5>>, <<7,0>>, <<6,1>>, <<7,2>>, <<5,0>>>>,
      \* a game that ends with no Dark piece left
      <<<<5,4>>, <<4,5>>, <<2,1>>, <<3,0>>, <<5,0>>, <<4,1>>, <<2,3>>, <<3,2>>, <<4,1>>, <<2,3>>,
        <<1,4>>, <<3,2>>, <<5,6>>, <<4,7>>, <<3,2>>, <<4,1>>, <<6,1>>, <<5,0>>, <<0,3>>, <<1,4>>,
        <<5,0>>, <<3,2>>, <<1,0>>, <<2,1>>, <<3,2>>, <<1,0>>, <<3,0>>, <<4,1>>, <<5,2>>, <<3,0>>,
        <<2,5>>, <<3,6>>, <<4,7>>, <<2,5>>, <<1,6>>, <<5,6>>, <<6,5>>, <<4,7>>, <<2,7>>, <<3,6>>,
        <<4,7>>, <<0,3>>, <<0,5>>, <<1,4>>, <<0,3>>, <<2,1>>, <<0,1>>, <<1,2>>, <<2,1>>, <<0,3>>,
        <<0,7>>, <<1,6>>, <<0,3>>, <<0,7>>>>,
      \* Dark still has pieces and none of them can move
      <<<<5,2>>, <<4,3>>, <<2,5>>, <<3,4>>, <<4,3>>, <<2,5>>, <<1,4>>, <<3,6>>, <<5,4>>, <<4,3>>,
        <<0,3>>, <<1,4>>, <<5,6>>, <<4,7>>, <<2,1>>, <<3,2>>, <<4,7>>, <<0,3>>, <<3,2>>, <<5,4>>,
        <<6,3>>, <<4,5>>, <<2,3>>, <<3,4>>, <<0,3>>, <<2,1>>, <<1,0>>, <<3,2>>, <<4,5>>, <<2,3>>,
        <<2,7>>, <<3,6>>, <<6,5>>, <<5,4>>, <<3,6>>, <<4,7>>, <<6,7>>, <<5,6>>, <<4,7>>, <<6,5>>,
        <<7,4>>, <<5,6>>, <<1,6>>, <<2,5>>, <<5,0>>, <<4,1>>, <<3,2>>, <<5,0>>, <<7,6>>, <<6,7>>,
        <<0,7>>, <<1,6>>, <<5,4>>, <<4,3>>, <<2,5>>, <<3,4>>, <<4,3>>, <<0,7>>, <<0,5>>, <<1,6>>,
        <<0,7>>, <<2,5>>, <<0,1>>, <<1,2>>, <<2,3>>, <<0,1>>>>,
      \* Light still has pieces and none of them can move
      <<<<5,4>>, <<4,3>>, <<2,5>>, <<3,6>>, <<6,3>>, <<5,4>>, <<1,4>>, <<2,5>>, <<5,6>>, <<4,7>>,
        <<0,5>>, <<1,4>>, <<7,2>>, <<6,3>>, <<2,5>>, <<3,4>>, <<4,3>>, <<2,5>>, <<1,6>>, <<3,4>>,
        <<4,7>>, <<2,5>>, <<1,4>>, <<3,6>>, <<5,4>>, <<4,5>>, <<3,6>>, <<7,2>>, <<5,0>>, <<4,1>>,
        <<7,2>>, <<3,2>>, <<6,7>>, <<5,6>>, <<3,4>>, <<4,5>>, <<5,6>>, <<3,4>>, <<2,3>>, <<4,5>>,
        <<5,2>>, <<4,1>>, <<3,2>>, <<5,0>>, <<6,5>>, <<5,6>>, <<4,5>>, <<6,7>>, <<7,6>>, <<6,5>>,
        <<2,1>>, <<3,2>>, <<7,0>>, <<6,1>>, <<5,0>>, <<7,2>>, <<7,4>>, <<6,3>>, <<7,2>>, <<5,4>>,
        <<6,5>>, <<2,1>>>> }

\* recorded clicks, automated opponent enabled
ScriptsAI ==
    { <<>>,
      \* four moves of Light, each answered by the search
      <<<<5,2>>, <<4,1>>, <<5,6>>, <<4,7>>, <<6,5>>, <<5,6>>, <<5,4>>, <<4,5>>>>,
      \* the search answers with a capture
      <<<<5,2>>, <<4,1>>, <<4,1>>, <<3,2>>>>,
      \* Light's last move leaves Dark six pieces and no move
      <<<<5,0>>, <<4,1>>, <<6,1>>, <<5,0>>, <<4,1>>, <<3,0>>, <<5,2>>, <<4,3>>, <<7,0>>, <<6,1>>,
        <<6,3>>, <<5,2>>, <<5,2>>, <<4,1>>, <<5,6>>, <<3,4>>, <<4,1>>, <<2,3>>, <<6,7>>, <<2,7>>,
        <<6,1>>, <<5,2>>, <<5,0>>, <<4,1>>, <<5,4>>, <<4,5>>, <<4,1>>, <<3,2>>, <<4,5>>, <<3,6>>,
        <<2,7>>, <<0,5>>, <<6,5>>, <<4,7>>>>,
      \* Light captures the last Dark piece
      <<<<5,2>>, <<4,1>>, <<4,1>>, <<3,0>>, <<5,4>>, <<4,5>>, <<5,0>>, <<4,1>>, <<4,5>>, <<3,6>>,
        <<6,3>>, <<5,4>>, <<6,1>>, <<2,5>>, <<7,0>>, <<6,1>>, <<6,1>>, <<5,0>>, <<7,4>>, <<6,3>>,
        <<7,2>>, <<6,1>>, <<6,3>>, <<5,2>>, <<4,1>>, <<2,3>>, <<5,2>>, <<4,1>>, <<5,4>>, <<4,5>>,
        <<3,6>>, <<2,5>>, <<2,5>>, <<0,7>>, <<2,3>>, <<0,5>>, <<0,5>>, <<1,4>>, <<1,4>>, <<2,5>>,
        <<6,5>>, <<0,3>>, <<7,6>>, <<5,4>>, <<6,7>>, <<4,5>>, <<4,5>>, <<2,7>>, <<2,5>>, <<4,3>>>> }

Scripts(ai_arg) == IF ai_arg THEN ScriptsAI ELSE ScriptsHuman

VARIABLES
    game,     \* the Game object
    script,   \* the recorded clicks still to come
    clicks,   \* the number of clicks made after the recorded ones
    last      \* the last call of Game.select: its arguments, the returned
              \* flag, whether it performed a move, whether a piece was
              \* selected when it was made and which, and the capture list
              \* of the move it performed

vars == <<game, script, clicks, last>>

Init ==
    \E ai_arg \in BOOLEAN :
        /\ game = NewGame(ai_arg)
        /\ script \in Scripts(ai_arg)
        /\ clicks = 0
        /\ last = [row |-> -1, col |-> -1, ret |-> FALSE, moved |-> FALSE,
                   had_selection |-> FALSE, selected |-> None, captured |-> <<>>]

\* the effect of a call of Game.select(row, col) that returned res
Called(row, col, res) ==
    /\ game' = res.g
    /\ last' = [row |-> row, col |-> col, ret |-> res.ret, moved |-> res.moved,
                had_selection |-> game.selected # None,
                selected |-> game.selected,
                captured |-> IF res.moved /\ dict_has(game.valid_moves, <<row, col>>)
                             THEN dict_get(game.valid_moves, <<row, col>>)
                             ELSE <<>>]

\* one MOUSEBUTTONDOWN event of Game.run: Game.select(row, col)
Select(row, col) ==
    /\ IF script # <<>> THEN <<row, col>> = Head(script) ELSE clicks < MaxClicks
    /\ Called(row, col, select(game, row, col))
    /\ clicks' = IF script = <<>> THEN clicks + 1 ELSE clicks
    /\ script' = IF script # <<>> THEN Tail(script) ELSE script

\* Game.run: events are handled while the game has no winner (the loop tests
\* winner() before each batch of events; a batch holds one click at most)
Next ==
    /\ Game_winner(game) = NoColor
    /\ \E row \in 0..(ROWS - 1), col \in 0..(COLS - 1) : Select(row, col)

Spec == Init /\ [][Next]_vars

\* ------------------------------------------------------------------------
\* Games in progress.  Board.get_valid_moves and the moves made with its
\* result are also looked at on positions with crossing capture chains: one
\* piece of the side to move (Light, the automated opponent disabled) and
\* Dark men on some of the cells of a pattern around it.  The positions
\* keep what the code keeps: pieces on the dark cells only, no Dark man on
\* row ROWS - 1, the counters of pieces left equal to the numbers on the
\* grid, white_kings 0 and black_kings counting the kings.
\* ------------------------------------------------------------------------
\* the piece to move: its cell and the cells of the pattern around it
Patterns ==
    { \* two forward paths that meet again two rows further on
      [at |-> <<6, 3>>, around |-> {<<5, 2>>, <<3, 2>>, <<5, 4>>, <<3, 4>>}],
      \* a straight line of two jumps that goes on around a ring
      [at |-> <<7, 0>>, around |-> {<<6, 1>>, <<4, 3>>, <<4, 1>>, <<2, 1>>, <<2, 3>>}],
      \* a jump that leads into a ring of four pieces
      [at |-> <<6, 1>>, around |-> {<<5, 2>>, <<3, 4>>, <<1, 4>>, <<1, 2>>, <<3, 2>>}] }

\* the board with a Light piece (a king or not) on cell at and Dark men on
\* the cells men
PositionBoard(at, king, men) ==
    [board |-> [r \in 0..(ROWS - 1) |-> [c \in 0..(COLS - 1) |->
                   IF <<r, c>> = at THEN [color |-> WHITE, king |-> king]
                   ELSE IF <<r, c>> \in men THEN Piece(BLACK)
                   ELSE Empty]],
     black_left |-> Cardinality(men), white_left |-> 1,
     black_kings |-> IF king THEN 1 ELSE 0, white_kings |-> 0]

InitPosition ==
    \E pattern \in Patterns, king \in BOOLEAN :
        \E men \in (SUBSET pattern.around) \ {{}} :
            /\ game = [NewGame(FALSE) EXCEPT !.board = PositionBoard(pattern.at, king, men)]
            /\ script = <<>>
            /\ clicks = 0
            /\ last = [row |-> -1, col |-> -1, ret |-> FALSE, moved |-> FALSE,
                       had_selection |-> FALSE, selected |-> None, captured |-> <<>>]

\* the clicks looked at: the cells of the patterns and of the landings
PositionCells ==
    {p \in (0..(ROWS - 1)) \X (0..(COLS - 1)) :
        p[2] % 2 = (p[1] + 1) % 2 /\ p[2] <= 5}

NextPosition ==
    /\ Game_winner(game) = NoColor
    /\ \E p \in PositionCells : Select(p[1], p[2])

SpecPositions == InitPosition /\ [][NextPosition]_vars

\* ------------------------------------------------------------------------
\* Vocabulary of the properties: the rules of the game read off the grid,
\* without the search code.
\* ------------------------------------------------------------------------
Cells == (0..(ROWS - 1)) \X (0..(COLS - 1))
OnBoard(r, c) == r \in 0..(ROWS - 1) /\ c \in 0..(COLS - 1)
PieceAt(b, p) == b.board[p[1]][p[2]]
PieceCells(b) == {p \in Cells : PieceAt(b, p) # Empty}
CellsOf(b, color) == {p \in Cells : PieceAt(b, p).color = color}
\* the row step towards the opponent's back row
Forward(color) == IF color = WHITE THEN -1 ELSE 1
Diagonals == {-1, 1} \X {-1, 1}
Directions(piece) ==
    IF piece.king THEN Diagonals ELSE {Forward(piece.color)} \X {-1, 1}
Shift(p, d, k) == <<p[1] + k * d[1], p[2] + k * d[2]>>
IsFree(b, p) == OnBoard(p[1], p[2]) /\ PieceAt(b, p) = Empty
IsOpponent(b, color, p) ==
    OnBoard(p[1], p[2]) /\ PieceAt(b, p) # Empty /\ PieceAt(b, p).color # color
\* a piece of colour color standing on cell from could jump in direction d
CanJump(b, color, from, d) ==
    IsOpponent(b, color, Shift(from, d, 1)) /\ IsFree(b, Shift(from, d, 2))
HasJump(b, p) ==
    \E d \in Directions(PieceAt(b, p)) : CanJump(b, PieceAt(b, p).color, p, d)
MustCapture(b, color) == \E p \in CellsOf(b, color) : HasJump(b, p)
PlainSteps(b, p) ==
    {Shift(p, d, 1) : d \in {e \in Directions(PieceAt(b, p)) : IsFree(b, Shift(p, e, 1))}}
AllCapturing(moves) == \A i \in 1..Len(moves) : moves[i][2] # <<>>
AllPlain(moves) == \A i \in 1..Len(moves) : moves[i][2] = <<>>
\* the piece clicked by the last call of Game.select
Clicked == <<last.row, last.col>>
ClickedOwn ==
    /\ last.row # -1
    /\ PieceAt(game.board, Clicked) # Empty
    /\ PieceAt(game.board, Clicked).color = game.turn

\* ------------------------------------------------------------------------
\* C1
\* ------------------------------------------------------------------------
\* C1: a call of Game.select(row, col) that performs no move returns true
\* or leaves a piece selected only if it does both for the piece at
\* (row, col), that piece belongs to the side to move and, whenever a piece
\* of that side has a capturing move, the piece itself has one; and
\* selecting a piece without a capture while another piece of its colour
\* has one returns false and selects nothing.
C1_SelectHonoursForcedCapture ==
    (last.row # -1 /\ ~last.moved) =>
        /\ (last.ret \/ game.selected # None) =>
               /\ last.ret
               /\ game.selected = Clicked
               /\ ClickedOwn
               /\ MustCapture(game.board, game.turn) => HasJump(game.board, Clicked)
        /\ (ClickedOwn /\ MustCapture(game.board, game.turn)
                       /\ ~HasJump(game.board, Clicked)) =>
               (~last.ret /\ game.selected = None)

\* a piece without a capture was clicked while a capture was mandatory
C1_RefusedSelection ==
    /\ ~last.moved
    /\ ClickedOwn
    /\ MustCapture(game.board, game.turn)
    /\ ~HasJump(game.board, Clicked)
    /\ ~last.ret

\* ------------------------------------------------------------------------
\* C2
\* ------------------------------------------------------------------------
\* the dict moves of Board.get_valid_moves(p) before the filter
Found(b, p) == all_directions(b, PieceAt(b, p), p[1], p[2] - 1, p[2] + 1)

CaptureAvailable ==
    \E q \in CellsOf(game.board, game.turn) : get_valid_moves(game.board, q)[2]

\* Game.select(p) called with nothing selected
SelectFresh(p) ==
    select([game EXCEPT !.selected = None, !.valid_moves = <<>>], p[1], p[2])

\* C3 as stated: if a piece of the side to move has a capturing move,
\* Board.get_valid_moves returns only entries with a non-empty capture list
\* for every piece of that colour.
C3_OnlyCapturesForEveryPiece ==
    CaptureAvailable =>
        \A p \in CellsOf(game.board, game.turn) :
            AllCapturing(get_valid_moves(game.board, p)[1])

\* C3, amended: if a piece of the side to move has a capturing move,
\* Board.get_valid_moves returns only entries with a non-empty capture list
\* for the pieces of that colour that have a capture themselves; for a piece
\* without a capture it returns the piece's plain steps with the flag false,
\* and it is Game.select that refuses such a piece.
C3_ForcedCapturePerPiece ==
    CaptureAvailable =>
        \A p \in CellsOf(game.board, game.turn) :
            LET vm == get_valid_moves(game.board, p)
            IN  /\ HasJump(game.board, p) =>
                       /\ vm[2] /\ vm[1] # <<>> /\ AllCapturing(vm[1])
                       /\ SelectFresh(p).ret
                       /\ SelectFresh(p).g.valid_moves = vm[1]
                /\ ~HasJump(game.board, p) =>
                       /\ ~vm[2] /\ AllPlain(vm[1])
                       /\ dict_keys(vm[1]) = PlainSteps(game.board, p)
                       /\ ~SelectFresh(p).ret
                       /\ SelectFresh(p).g.selected = None

\* a capture is available and another piece of the colour has a plain step
C3_PlainStepsBesideCapture ==
    /\ CaptureAvailable
    /\ \E p \in CellsOf(game.board, game.turn) :
           /\ ~get_valid_moves(game.board, p)[2]
           /\ get_valid_moves(game.board, p)[1] # <<>>

\* ------------------------------------------------------------------------
\* C4
\* ------------------------------------------------------------------------
\* C4: for a non-king piece every destination returned by
\* Board.get_valid_moves lies strictly forward of the piece's row: a plain
\* step one row forward, the landing cell of a chain of n jumps 2n rows
\* forward, each captured piece on its own odd row in between; a king gets
\* the jump over an adjacent opponent piece in each of the four diagonal
\* directions and, when it has no jump, the plain step in each of them.
C4_Directions ==
    \A p \in PieceCells(game.board) :
        LET piece == PieceAt(game.board, p)
            fw == Forward(piece.color)
            vm == get_valid_moves(game.board, p)[1]
        IN  /\ ~piece.king =>
                \A i \in 1..Len(vm) :
                    LET dest == vm[i][1]
                        cap == vm[i][2]
                    IN  /\ (dest[1] - p[1]) * fw > 0
                        /\ cap = <<>> => dest[1] = p[1] + fw
                        /\ cap # <<>> =>
                               /\ dest[1] = p[1] + 2 * Len(cap) * fw
                               /\ \A j \in 1..Len(cap) :
                                      cap[j][1] = p[1] + (2 * (Len(cap) - j) + 1) * fw
            /\ piece.king =>
                \A d \in Diagonals :
                    /\ CanJump(game.board, piece.color, p, d) =>
                           /\ dict_has(vm, Shift(p, d, 2))
                           /\ dict_get(vm, Shift(p, d, 2)) # <<>>
                    /\ (~HasJump(game.board, p) /\ IsFree(game.board, Shift(p, d, 1))) =>
                           /\ dict_has(vm, Shift(p, d, 1))
                           /\ dict_get(vm, Shift(p, d, 1)) = <<>>

\* a non-king piece has a chain of two or more jumps
C4_ChainOfJumps ==
    \E p \in PieceCells(game.board) :
        /\ ~PieceAt(game.board, p).king
        /\ \E i \in 1..Len(get_valid_moves(game.board, p)[1]) :
               Len(get_valid_moves(game.board, p)[1][i][2]) >= 2

\* ------------------------------------------------------------------------
\* C5
\* ------------------------------------------------------------------------
\* the piece on p can jump in direction d and, from the landing cell, over
\* another opponent piece in direction e
SecondJump(b, p, d, e) ==
    /\ CanJump(b, PieceAt(b, p).color, p, d)
    /\ Shift(Shift(p, d, 2), e, 1) # Shift(p, d, 1)
    /\ CanJump(b, PieceAt(b, p).color, Shift(p, d, 2), e)

\* C5 as stated: a non-king piece that can jump forward and then has an
\* opponent piece diagonally behind the landing cell with an empty cell
\* beyond gets that cell as a destination.
C5_BackwardContinuation ==
    \A p \in PieceCells(game.board) :
        LET piece == PieceAt(game.board, p)
        IN  ~piece.king =>
                \A d \in Directions(piece), e \in Diagonals \ Directions(piece) :
                    SecondJump(game.board, p, d, e) =>
                        dict_has(get_valid_moves(game.board, p)[1],
                                 Shift(Shift(p, d, 2), e, 2))

\* C5, amended: after a capture the search continued from the landing cell
\* explores the two forward directions for a non-king piece and all four
\* for a king only: a non-king piece that has jumped forward gets a further
\* forward jump as a destination and does not get a backward jump, a king
\* gets the further jump in every direction.
C5_ContinuationDirections ==
    \A p \in PieceCells(game.board) :
        LET piece == PieceAt(game.board, p)
            vm == get_valid_moves(game.board, p)[1]
        IN  \A d \in Directions(piece), e \in Diagonals :
                SecondJump(game.board, p, d, e) =>
                    IF e \in Directions(piece)
                    THEN /\ dict_has(vm, Shift(Shift(p, d, 2), e, 2))
                         /\ Len(dict_get(vm, Shift(Shift(p, d, 2), e, 2))) >= 2
                    ELSE ~dict_has(vm, Shift(Shift(p, d, 2), e, 2))

\* a non-king piece can jump forward and has an opponent piece behind the
\* landing cell with an empty cell beyond
C5_BackwardJumpOffered ==
    \E p \in PieceCells(game.board) :
        /\ ~PieceAt(game.board, p).king
        /\ \E d \in Directions(PieceAt(game.board, p)),
              e \in Diagonals \ Directions(PieceAt(game.board, p)) :
                  SecondJump(game.board, p, d, e)

\* ------------------------------------------------------------------------
\* C6
\* ------------------------------------------------------------------------
\* the calls Board.move(piece, row, col) that Game._move can make next: a
\* piece of the side to move that Game.select accepts and one of its
\* destinations
NextMoves ==
    UNION {{<<p, t>> : t \in dict_keys(get_valid_moves(game.board, p)[1])} :
           p \in {q \in CellsOf(game.board, game.turn) :
                     MustCapture(game.board, game.turn) => HasJump(game.board, q)}}

\* C6: Board.move changes a king counter only when it lands a non-king
\* piece on row 0 or row ROWS - 1, and then adds 1 to the counter of the
\* piece's colour and leaves the other counter alone; every other move,
\* that of a king onto row 0 or row ROWS - 1 included, changes neither.
C6_KingCounters ==
    \A m \in NextMoves :
        LET piece == PieceAt(game.board, m[1])
            after == move(game.board, m[1], m[2][1], m[2][2])
            crowned == ~piece.king /\ m[2][1] \in {0, ROWS - 1}
        IN  /\ after.white_kings = game.board.white_kings +
                   (IF crowned /\ piece.color = WHITE THEN 1 ELSE 0)
            /\ after.black_kings = game.board.black_kings +
                   (IF crowned /\ piece.color = BLACK THEN 1 ELSE 0)

\* ------------------------------------------------------------------------
\* C7
\* ------------------------------------------------------------------------
Opponent(color) == IF color = WHITE THEN BLACK ELSE WHITE

\* both sides have a piece and no piece of colour color has a destination
Blocked(b, color) ==
    /\ CellsOf(b, WHITE) # {}
    /\ CellsOf(b, BLACK) # {}
    /\ \A p \in CellsOf(b, color) : get_valid_moves(b, p)[1] = <<>>

\* C7: when both sides have a piece and no piece of one colour has a legal
\* destination, Board.winner() returns the other colour.
C7_BlockedSideLoses ==
    \A color \in {WHITE, BLACK} :
        Blocked(game.board, color) => winner(game.board) = Opponent(color)

\* ------------------------------------------------------------------------
\* C8
\* ------------------------------------------------------------------------
\* C8: in every reachable state Board.winner() returns BLACK when
\* white_left <= 0 (also when black_left is 0 as well) and WHITE when
\* black_left is 0 while white_left > 0; so a side with no piece on the
\* grid loses.
C8_SideWithoutPiecesLoses ==
    /\ game.board.white_left <= 0 => winner(game.board) = BLACK
    /\ (game.board.black_left = 0 /\ game.board.white_left > 0) =>
           winner(game.board) = WHITE
    /\ CellsOf(game.board, WHITE) = {} => winner(game.board) = BLACK
    /\ (CellsOf(game.board, BLACK) = {} /\ CellsOf(game.board, WHITE) # {}) =>
           winner(game.board) = WHITE

\* the last Dark piece has been captured
C8_DarkWipedOut ==
    /\ game.board.black_left = 0
    /\ game.board.white_left > 0
    /\ last.moved

\* ------------------------------------------------------------------------
\* C9
\* ------------------------------------------------------------------------
CountsMatch(b) ==
    /\ b.white_left = Cardinality(CellsOf(b, WHITE))
    /\ b.black_left = Cardinality(CellsOf(b, BLACK))

\* the board Game._move hands to Game._change_turn after the move m
AfterMove(m) ==
    LET skipped == dict_get(get_valid_moves(game.board, m[1])[1], m[2])
    IN  IF skipped # <<>>
        THEN remove(move(game.board, m[1], m[2][1], m[2][2]), skipped)
        ELSE move(game.board, m[1], m[2][1], m[2][2])

\* CountsMatch on position and on every board below it in the game tree
\* that minimax(position, depth, max_player, game) walks through
RECURSIVE TreeCountsMatch(_, _, _)
TreeCountsMatch(position, depth, max_player) ==
    /\ CountsMatch(position)
    /\ (depth = 0 \/ winner(position) # NoColor) \/
           LET moves == get_all_moves(position, IF max_player THEN BLACK ELSE WHITE)
           IN  \A i \in 1..Len(moves) : TreeCountsMatch(moves[i], depth - 1, ~max_player)

\* C9: white_left and black_left equal the numbers of Light and Dark pieces
\* on the grid (12 and 12 at the start) in every reachable state, and on
\* every board of the search that answers a move of Light.  A board changes
\* in a call that moves only, so the searches are looked at in the states
\* that such a call, or the start, has left.
C9_CountsMatchGrid ==
    /\ CountsMatch(game.board)
    /\ last.row = -1 => (game.board.white_left = 12 /\ game.board.black_left = 12)
    /\ (game.ai /\ game.turn = WHITE /\ (last.moved \/ last.row = -1)) =>
           \A m \in NextMoves : TreeCountsMatch(AfterMove(m), ai_intelligence, TRUE)

\* the automated opponent has captured a piece
C9_AutomatedCapture ==
    /\ game.ai
    /\ last.moved
    /\ game.board.white_left < 12

\* ------------------------------------------------------------------------
\* C10
\* ------------------------------------------------------------------------
ScoreEq(x, y) == Leq(x, y) /\ Leq(y, x)

\* the depth-limited minimax value of position without pruning, with the
\* evaluation and the move enumeration of minimax
RECURSIVE ExactValue(_, _, _, _)
RECURSIVE ExactBest(_, _, _, _, _, _)
ExactBest(moves, i, depth, max_player, history, best) ==
    IF i > Len(moves) THEN best
    ELSE ExactBest(moves, i + 1, depth, max_player, history,
             IF max_player
             THEN ScoreMax(best, ExactValue(moves[i], depth - 1, FALSE, history))
             ELSE ScoreMin(best, ExactValue(moves[i], depth - 1, TRUE, history)))

ExactValue(position, depth, max_player, history) ==
    IF depth = 0 \/ winner(position) # NoColor
    THEN terminal_score(position, history)
    ELSE ExactBest(get_all_moves(position, IF max_player THEN BLACK ELSE WHITE),
                   1, depth, max_player, history,
                   IF max_player THEN NegInf ELSE PosInf)

\* the board returned by minimax(root, ai_intelligence, True, game) has
\* the best exact value among the boards of Dark's moves
BestReply(root, history) ==
    LET best_move == minimax(root, ai_intelligence, TRUE, history, NegInf, PosInf)[2]
    IN  (winner(root) = NoColor /\ best_move # None) =>
            ScoreEq(ExactValue(best_move[1], ai_intelligence - 1, FALSE, history),
                    ExactValue(root, ai_intelligence, TRUE, history))

\* C10: whenever a call of Game.select moves a Light piece with the
\* automated opponent enabled, the board returned by the root call of
\* minimax on the resulting board has an exact depth-limited minimax value
\* equal to the maximum of that value over the boards of all legal moves of
\* Dark.
C10_SearchReturnsBestMove ==
    [][(game.ai /\ game.turn = WHITE /\ last'.moved) =>
           BestReply(AfterMove(<<game.selected, <<last'.row, last'.col>>>>),
                     game.board_history)]_vars

\* ------------------------------------------------------------------------
\* C11
\* ------------------------------------------------------------------------
\* by the rules of the game no piece of colour color has a move on b
NoLegalMove(b, color) ==
    \A p \in CellsOf(b, color) : PlainSteps(b, p) = {} /\ ~HasJump(b, p)

\* the call of Game.select that is being made moves a Light piece with the
\* automated opponent enabled
LightMovesAgainstSearch == game.ai /\ game.turn = WHITE /\ last'.moved

\* the board on which that call starts the search
SearchRoot == AfterMove(<<game.selected, <<last'.row, last'.col>>>>)

\* the board returned by the root call minimax(root, depth, True, game)
RootResult(root, depth) ==
    minimax(root, depth, TRUE, game.board_history, NegInf, PosInf)[2]

\* the game Game._change_turn leaves when ai_move returns at once
SearchIdle ==
    [game EXCEPT !.board = SearchRoot, !.turn = BLACK,
                 !.selected = None, !.valid_moves = <<>>]

\* C11: on the board without a winner that a move of Light leaves, the root
\* call of minimax with a depth from 1 to ai_intelligence returns None as
\* the board iff Dark has no legal move, and otherwise one of the boards of
\* get_all_moves for Dark; when it returns None, Game.ai_move returns
\* normally and leaves the game as it found it.
C11_RootResultOfSearch ==
    [][LightMovesAgainstSearch =>
           \A root \in {SearchRoot} :
               winner(root) = NoColor =>
                   /\ \A depth \in 1..ai_intelligence :
                          \A best_move \in {RootResult(root, depth)} :
                              /\ best_move = None <=> NoLegalMove(root, BLACK)
                              /\ best_move # None =>
                                     InList(best_move[1], get_all_moves(root, BLACK))
                   /\ NoLegalMove(root, BLACK) => game' = SearchIdle]_vars

\* Light has moved, Dark has pieces and no move, and the search has
\* returned no board
C11_SearchFoundNoMove ==
    /\ game.ai
    /\ last.moved
    /\ game.turn = BLACK
    /\ CellsOf(game.board, BLACK) # {}
    /\ NoLegalMove(game.board, BLACK)

\* ------------------------------------------------------------------------
\* C12
\* ------------------------------------------------------------------------
\* C12: when the root search after a move of Light finds no move, ai_move
\* changes neither the board nor the history, and Game.winner() is not None
\* in the state the call leaves.
C12_NoMoveEndsTheGame ==
    [][LightMovesAgainstSearch =>
           \A root \in {SearchRoot} :
               RootResult(root, ai_intelligence) = None =>
                   /\ game'.board = root
                   /\ game'.board_history = game.board_history
                   /\ Game_winner(game') # NoColor]_vars

\* ------------------------------------------------------------------------
\* C13
\* ------------------------------------------------------------------------
\* the normalized snapshot of a board: Light's cells empty, Dark's men 'B',
\* Dark's kings 'BK'
Snapshot(b) ==
    [r \in 0..(ROWS - 1) |-> [c \in 0..(COLS - 1) |->
        IF <<r, c>> \notin CellsOf(b, BLACK) THEN "0"
        ELSE IF PieceAt(b, <<r, c>>).king THEN "BK" ELSE "B"]]

\* the first history_length elements of h
Newest(h) == SubSeq(h, 1, IF Len(h) < history_length THEN Len(h) ELSE history_length)

\* C13: the history never holds more than history_length snapshots; a call
\* in which the automated opponent adopts a board puts the snapshot of that
\* board in front of the earlier snapshots, which keep their order, and
\* drops the oldest one only when the capacity would be exceeded; every
\* other call leaves the history as it is.
C13_HistoryDiscipline ==
    [][/\ Len(game.board_history) <= history_length
       /\ Len(game'.board_history) <= history_length
       /\ IF LightMovesAgainstSearch
          THEN \A root \in {SearchRoot} :
                   IF RootResult(root, ai_intelligence) # None
                   THEN game'.board_history =
                            Newest(<<Snapshot(game'.board)>> \o game.board_history)
                   ELSE game'.board_history = game.board_history
          ELSE game'.board_history = game.board_history]_vars

\* the history is full and its newest snapshot is that of the board an
\* automated move has just left
C13_FullHistory ==
    /\ game.ai
    /\ last.moved
    /\ Len(game.board_history) = history_length
    /\ history_length >= 2
    /\ game.board_history[1] = Snapshot(game.board)
    /\ game.board_history[2] # game.board_history[1]

\* ------------------------------------------------------------------------
\* C14
\* ------------------------------------------------------------------------
\* C14: whenever Game.select returns false, no piece is selected and the
\* map of legal destinations is empty after the call, whatever was clicked
\* and whether or not a piece was selected before.
C14_FailureClearsSelection ==
    [][~last'.ret => (game'.selected = None /\ game'.valid_moves = <<>>)]_vars

\* a piece was selected, the click went to a cell that is neither one of
\* its destinations nor a piece of the side to move, and nothing is
\* selected any more
C14_SelectionDropped ==
    /\ last.had_selection
    /\ ~last.ret
    /\ ~last.moved
    /\ ~ClickedOwn
    /\ game.selected = None

\* ------------------------------------------------------------------------
\* C15
\* ------------------------------------------------------------------------
\* C15 as stated: Game.select returns true whenever the call changed the
\* game, and so for every call that performs a move.
C15_TrueOnEveryChange ==
    [][(game' # game \/ last'.moved) => last'.ret]_vars

\* C15, amended: Game.select returns true exactly when the call leaves a
\* piece selected, which is then the piece on the clicked cell, a piece of
\* the side to move, with its destinations as the map; a call that performs
\* a move returns false when the automated opponent is disabled, and with
\* the opponent enabled it returns true only if after the reply the cell
\* moved to holds a Light piece that Game.select accepts.
C15_TrueIffPieceSelected ==
    last.row # -1 =>
        /\ last.ret <=> game.selected # None
        /\ last.ret =>
               /\ game.selected = Clicked
               /\ ClickedOwn
               /\ MustCapture(game.board, game.turn) => HasJump(game.board, Clicked)
               /\ game.valid_moves = get_valid_moves(game.board, Clicked)[1]
        /\ (last.moved /\ ~game.ai) => ~last.ret
        /\ (last.moved /\ last.ret) =>
               (game.ai /\ game.turn = WHITE /\ PieceAt(game.board, Clicked).color = WHITE)

\* a call has performed a move and returned false
C15_MoveReturnedFalse ==
    /\ last.moved
    /\ ~last.ret
    /\ ~game.ai
    /\ game.selected = None

\* ------------------------------------------------------------------------
\* C16
\* ------------------------------------------------------------------------
Range(list) == {list[i] : i \in 1..Len(list)}
Left(b, color) == IF color = WHITE THEN b.white_left ELSE b.black_left
\* a call of Game.select is moving the selected piece, no automated reply
\* follows
PlayerMoves == ~game.ai /\ last'.moved
Destination == <<last'.row, last'.col>>
\* the cells of the pieces the move takes off the grid or changes, the
\* moved piece aside
GoneOrChanged ==
    {p \in PieceCells(game.board) \ {game.selected} :
        PieceAt(game'.board, p) # PieceAt(game.board, p)}

\* the move takes the pieces of the capture list recorded for its
\* destination, and no other, and lowers the opponent's count by their number
RemovesRecorded ==
    PlayerMoves =>
        /\ game.valid_moves = get_valid_moves(game.board, game.selected)[1]
        /\ \A captured \in {dict_get(game.valid_moves, Destination)} :
               /\ GoneOrChanged = Range(captured)
               /\ \A p \in Range(captured) : PieceAt(game'.board, p) = Empty
               /\ Left(game'.board, Opponent(game.turn))
                      = Left(game.board, Opponent(game.turn)) - Len(captured)
               /\ Left(game'.board, game.turn) = Left(game.board, game.turn)

\* the piece on p has an opponent piece next to it in direction d, an empty
\* cell behind that, a second opponent piece behind the empty cell and an
\* empty cell behind the second piece
StraightDouble(b, p, d) ==
    /\ CanJump(b, PieceAt(b, p).color, p, d)
    /\ CanJump(b, PieceAt(b, p).color, Shift(p, d, 2), d)

\* the far landing cell is a destination of the piece on p and its capture
\* list holds the two pieces of the line and nothing else
FarLandingTakesBoth(b, p, d) ==
    /\ dict_has(get_valid_moves(b, p)[1], Shift(p, d, 4))
    /\ \A captured \in {dict_get(get_valid_moves(b, p)[1], Shift(p, d, 4))} :
           Len(captured) = 2 /\ Range(captured) = {Shift(p, d, 1), Shift(p, d, 3)}

\* the move being made is along a straight line of two jumps and takes both
\* pieces of the line
MoveTakesBoth(d) ==
    (StraightDouble(game.board, game.selected, d) /\ Destination = Shift(game.selected, d, 4))
        => /\ PieceAt(game'.board, Shift(game.selected, d, 1)) = Empty
           /\ PieceAt(game'.board, Shift(game.selected, d, 3)) = Empty

\* C16 as stated: a successful move through Game.select to a destination d
\* removes exactly the pieces in the capture list recorded for d and no
\* other piece, and lowers the opponent's remaining count by the length of
\* that list; for a piece, king or not, facing two opponent pieces in a
\* straight-line double-jump pattern the far landing cell is a destination
\* whose capture list holds exactly those two pieces, and moving there
\* removes both in one turn.
C16_StraightDoubleOfAnyPiece ==
    [][/\ RemovesRecorded
       /\ \A p \in PieceCells(game.board) : \A d \in Directions(PieceAt(game.board, p)) :
              StraightDouble(game.board, p, d) => FarLandingTakesBoth(game.board, p, d)
       /\ PlayerMoves =>
              \A d \in Directions(PieceAt(game.board, game.selected)) : MoveTakesBoth(d)]_vars

\* C16: a successful move through Game.select to a destination d removes
\* exactly the pieces in the capture list recorded for d and no other piece,
\* and lowers the opponent's remaining count by the length of that list; for
\* a non-king piece facing two opponent pieces in a straight-line
\* double-jump pattern the far landing cell is a destination whose capture
\* list holds exactly those two pieces, and moving there removes both in one
\* turn.  (For a king the far landing cell may hold the list of a longer
\* chain that ends there after a ring of further pieces.)
C16_MoveRemovesRecordedList ==
    [][/\ RemovesRecorded
       /\ \A p \in PieceCells(game.board) : \A d \in Directions(PieceAt(game.board, p)) :
              (~PieceAt(game.board, p).king /\ StraightDouble(game.board, p, d))
                  => FarLandingTakesBoth(game.board, p, d)
       /\ (PlayerMoves /\ ~PieceAt(game.board, game.selected).king) =>
              \A d \in Directions(PieceAt(game.board, game.selected)) : MoveTakesBoth(d)]_vars

\* a non-king piece has made the two jumps of a straight line in one move
C16_DoubleJumpMade ==
    /\ ~game.ai /\ last.moved /\ Len(last.captured) = 2
    /\ ~PieceAt(game.board, Clicked).king
    /\ \E d \in Diagonals :
           /\ Clicked = Shift(last.selected, d, 4)
           /\ last.captured = <<Shift(last.selected, d, 3), Shift(last.selected, d, 1)>>
           /\ PieceAt(game.board, Shift(last.selected, d, 1)) = Empty
           /\ PieceAt(game.board, Shift(last.selected, d, 3)) = Empty

\* ------------------------------------------------------------------------
\* C17
\* ------------------------------------------------------------------------
\* the board after the piece on p of board b has moved to its destination t
Moved(b, p, t) ==
    IF dict_get(get_valid_moves(b, p)[1], t) # <<>>
    THEN remove(move(b, p, t[1], t[2]), dict_get(get_valid_moves(b, p)[1], t))
    ELSE move(b, p, t[1], t[2])

\* the boards one legal move of colour color leads to from board b
LegalReplies(b, color) ==
    UNION {{Moved(b, p, t) : t \in dict_keys(get_valid_moves(b, p)[1])} :
           p \in {q \in CellsOf(b, color) : MustCapture(b, color) => HasJump(b, q)}}

\* one automated move has answered the Light move that led to root
Answered(root) ==
    /\ game'.board \in LegalReplies(root, BLACK)
    /\ game'.board_history = Newest(<<Snapshot(game'.board)>> \o game.board_history)
    /\ game'.turn = WHITE

\* with the opponent disabled the side to move changes with a move and
\* only then
Alternates == ~game.ai => (game'.turn # game.turn <=> last'.moved)

\* C17 as stated: with the automated opponent enabled, every successful
\* Light move made through Game.select is followed, before select returns,
\* by exactly one automated Dark move: the adopted board is the board after
\* Light's move with one legal Dark move applied, exactly one snapshot is
\* pushed to the history, and the side to move is Light again; with the
\* opponent disabled the side to move alternates with each successful move
\* and changes at no other time.
C17_EveryLightMoveAnswered ==
    [][/\ LightMovesAgainstSearch => \A root \in {SearchRoot} : Answered(root)
       /\ Alternates]_vars

\* C17: with the automated opponent enabled, a successful Light move made
\* through Game.select that leaves Dark a legal move is followed, before
\* select returns, by exactly one automated Dark move: the adopted board is
\* the board after Light's move with one legal Dark move applied, one
\* snapshot is pushed to the history, and the side to move is Light again.
\* A Light move that takes Dark's last piece is followed by no Dark move:
\* the board is adopted as it is, its snapshot is pushed and the side to
\* move is Light.  A Light move that leaves Dark pieces and no legal move is
\* followed by nothing: board and history stay and the side to move stays
\* Dark.  With the opponent disabled the side to move alternates with each
\* successful move and changes at no other time.
C17_LightMoveAnsweredIfPossible ==
    [][/\ LightMovesAgainstSearch =>
              \A root \in {SearchRoot} :
                  /\ (CellsOf(root, BLACK) # {} /\ ~NoLegalMove(root, BLACK))
                         => Answered(root)
                  /\ CellsOf(root, BLACK) = {} =>
                         /\ game'.board = root
                         /\ game'.board_history
                                = Newest(<<Snapshot(root)>> \o game.board_history)
                         /\ game'.turn = WHITE
                  /\ (CellsOf(root, BLACK) # {} /\ NoLegalMove(root, BLACK)) =>
                         /\ game'.board = root
                         /\ game'.board_history = game.board_history
                         /\ game'.turn = BLACK
       /\ Alternates]_vars

\* the automated opponent has answered a Light move with a move of a Dark
\* piece
C17_DarkHasAnswered ==
    /\ game.ai
    /\ last.moved
    /\ game.turn = WHITE
    /\ game.board_history # <<>>
    /\ game.board_history[1] = Snapshot(game.board)
    /\ CellsOf(game.board, BLACK) # {}
    /\ PieceAt(game.board, last.selected) = Empty

\* ------------------------------------------------------------------------
\* C18
\* ------------------------------------------------------------------------
\* cell d is a destination of the piece that is selected
LegalDestination(d) ==
    /\ game.selected # None
    /\ d \in dict_keys(get_valid_moves(game.board, game.selected)[1])

\* C18: a Game.select call whose target cell is not a legal destination of
\* the currently selected piece (or made with nothing selected) performs no
\* move: the grid, every piece's position and king flag, the four counters,
\* the side to move and the history are unchanged by the call; only the
\* selection and the destination map may change.
C18_NoMoveOffTheMap ==
    [][~LegalDestination(<<last'.row, last'.col>>) =>
           /\ ~last'.moved
           /\ game'.board = game.board
           /\ game'.turn = game.turn
           /\ game'.board_history = game.board_history
           /\ game'.ai = game.ai]_vars

\* with a piece selected, an empty cell that is not one of its destinations
\* was clicked: the piece stands where it stood
C18_ClickOffTheMap ==
    /\ last.had_selection
    /\ ~last.moved
    /\ PieceAt(game.board, Clicked) = Empty
    /\ PieceAt(game.board, last.selected) # Empty
    /\ PieceAt(game.board, last.selected).color = game.turn

\* ------------------------------------------------------------------------
\* C19
\* ------------------------------------------------------------------------
\* A capture chain of the piece on p is the sequence of the cells of the
\* pieces it jumps, in the order of the jumps: each is an opponent piece
\* next to the cell reached so far, in a direction of the piece, not jumped
\* before, with an empty cell behind it.
Reverse(list) == [i \in 1..Len(list) |-> list[Len(list) + 1 - i]]

\* the cell the piece on p reaches by jumping the pieces of jumped
RECURSIVE Landing(_, _)
Landing(p, jumped) ==
    IF jumped = <<>> THEN p
    ELSE <<2 * jumped[Len(jumped)][1] - Landing(p, SubSeq(jumped, 1, Len(jumped) - 1))[1],
           2 * jumped[Len(jumped)][2] - Landing(p, SubSeq(jumped, 1, Len(jumped) - 1))[2]>>

IsChain(b, p, jumped) ==
    /\ jumped # <<>>
    /\ \A i, j \in 1..Len(jumped) : i # j => jumped[i] # jumped[j]
    /\ \A i \in 1..Len(jumped) :
           \A from \in {Landing(p, SubSeq(jumped, 1, i - 1))} :
               /\ <<jumped[i][1] - from[1], jumped[i][2] - from[2]>> \in Directions(PieceAt(b, p))
               /\ CanJump(b, PieceAt(b, p).color, from,
                          <<jumped[i][1] - from[1], jumped[i][2] - from[2]>>)

\* the chains of the piece on p that begin with the jumps of jumped
RECURSIVE ChainsFrom(_, _, _)
ChainsFrom(b, p, jumped) ==
    (IF jumped = <<>> THEN {} ELSE {jumped})
        \cup UNION {ChainsFrom(b, p, Append(jumped, Shift(Landing(p, jumped), d, 1))) :
                    d \in {e \in Directions(PieceAt(b, p)) :
                              /\ CanJump(b, PieceAt(b, p).color, Landing(p, jumped), e)
                              /\ Shift(Landing(p, jumped), e, 1) \notin Range(jumped)}}

Chains(b, p) == ChainsFrom(b, p, <<>>)

\* chain is the only chain of the piece on p that ends on its landing cell
OnlyChainToItsLanding(b, p, chain) ==
    \A other \in Chains(b, p) : Landing(p, other) = Landing(p, chain) => other = chain

\* C19 as stated: for every capture chain from a piece and for every prefix
\* of that chain (a prefix of a chain is a chain), the landing cell is a key
\* of the map returned by Board.get_valid_moves and its value is exactly the
\* list of the pieces jumped along it, also when two different chains land
\* on the same cell.
C19_EveryChainRecorded ==
    \A p \in PieceCells(game.board) :
        \A vm \in {get_valid_moves(game.board, p)[1]} :
            \A chain \in Chains(game.board, p) :
                /\ dict_has(vm, Landing(p, chain))
                /\ dict_get(vm, Landing(p, chain)) = Reverse(chain)

\* C19: every entry with a non-empty list of the map returned by
\* Board.get_valid_moves is a capture chain of the piece: its key is the
\* landing cell of the chain and its value is exactly the list of the pieces
\* jumped along it, the last one first; the landing cell of every prefix of
\* a recorded chain is a key of the map too, so partial and maximal paths
\* are both destinations.  The map holds one list per cell: where different
\* chains land on the same cell one of them is kept.  For a non-king piece
\* the landing cell of every chain is a key, and a chain that is the only
\* one to end on its landing cell is recorded exactly.
C19_RecordedListsAreChains ==
    \A p \in PieceCells(game.board) :
        \A vm \in {get_valid_moves(game.board, p)[1]} :
            /\ \A i \in 1..Len(vm) :
                   vm[i][2] # <<>> =>
                       \A chain \in {Reverse(vm[i][2])} :
                           /\ IsChain(game.board, p, chain)
                           /\ Landing(p, chain) = vm[i][1]
                           /\ \A k \in 1..Len(chain) :
                                  Landing(p, SubSeq(chain, 1, k)) \in dict_keys(vm)
            /\ ~PieceAt(game.board, p).king =>
                   \A chain \in Chains(game.board, p) :
                       /\ dict_has(vm, Landing(p, chain))
                       /\ OnlyChainToItsLanding(game.board, p, chain)
                              => dict_get(vm, Landing(p, chain)) = Reverse(chain)

\* the piece selected has two different chains that end on the same cell,
\* and the destination map holds the cell with one of the two
C19_TwoChainsOneLanding ==
    /\ game.selected # None
    /\ game.valid_moves = get_valid_moves(game.board, game.selected)[1]
    /\ \E one, two \in Chains(game.board, game.selected) :
           /\ one # two
           /\ Landing(game.selected, one) = Landing(game.selected, two)
           /\ dict_has(game.valid_moves, Landing(game.selected, one))
           /\ dict_get(game.valid_moves, Landing(game.selected, one)) = Reverse(two)

\* ------------------------------------------------------------------------
\* C20
\* ------------------------------------------------------------------------
\* C20: no capture list returned by Board.get_valid_moves contains the same
\* piece twice, every piece in it is an opponent piece present on the
\* board, and the capture-chain search terminates for every board,
\* including a king surrounded by a cycle of capturable pieces: the map is
\* returned, and no list is longer than the number of the opponent's pieces.
C20_CaptureListsWithoutRepeats ==
    \A p \in PieceCells(game.board) :
        \A vm \in {get_valid_moves(game.board, p)[1]} :
            \A i \in 1..Len(vm) :
                /\ \A j, k \in 1..Len(vm[i][2]) : j # k => vm[i][2][j] # vm[i][2][k]
                /\ \A j \in 1..Len(vm[i][2]) :
                       IsOpponent(game.board, PieceAt(game.board, p).color, vm[i][2][j])
                /\ Len(vm[i][2])
                       <= Cardinality(CellsOf(game.board, Opponent(PieceAt(game.board, p).color)))

\* a king is selected whose destination map holds a circuit: a chain of
\* jumps over the pieces around it that ends on the landing cell of its own
\* first jump
C20_KingInsideCycle ==
    /\ game.selected # None
    /\ PieceAt(game.board, game.selected).king
    /\ \E i \in 1..Len(game.valid_moves) :
           /\ Len(game.valid_moves[i][2]) >= 4
           /\ game.valid_moves[i][1]
                  = Landing(game.selected, SubSeq(Reverse(game.valid_moves[i][2]), 1, 1))

\* ------------------------------------------------------------------------
\* C21
\* ------------------------------------------------------------------------
\* a game without automated opponent on board b with colour color to move
\* and nothing selected
GameOn(b, color) ==
    [game EXCEPT !.board = b, !.turn = color, !.ai = FALSE,
                 !.selected = None, !.valid_moves = <<>>]

\* the cells a click may send the piece on p to: its destinations and the
\* empty cells one step away
Targets(b, p) == dict_keys(get_valid_moves(b, p)[1]) \cup PlainSteps(b, p)

\* the boards the two calls select(p), select(t) lead to when the second
\* call moves the piece
SelectTwice(b, color, p) ==
    {second.g.board :
        second \in {r \in {select(picked.g, t[1], t[2]) :
                               picked \in {select(GameOn(b, color), p[1], p[2])},
                               t \in Targets(b, p)} : r.moved}}

ThroughSelect(b, color) == UNION {SelectTwice(b, color, p) : p \in CellsOf(b, color)}

\* the boards the rule gives: captures only, by the pieces that have one,
\* if the colour has a capture, and the plain steps of every piece otherwise
ByTheRule(b, color) ==
    IF MustCapture(b, color)
    THEN UNION {{Moved(b, p, t) :
                    t \in {u \in dict_keys(get_valid_moves(b, p)[1]) :
                              dict_get(get_valid_moves(b, p)[1], u) # <<>>}} :
                p \in {q \in CellsOf(b, color) : HasJump(b, q)}}
    ELSE UNION {{move(b, p, t[1], t[2]) : t \in PlainSteps(b, p)} : p \in CellsOf(b, color)}

\* the enumeration of the search, the moves through select and the rule agree
\* on the board of the game, for either colour
SearchMovesAreSelectMoves ==
    \A color \in {WHITE, BLACK} :
        \A boards \in {Range(get_all_moves(game.board, color))} :
            /\ boards = ThroughSelect(game.board, color)
            /\ boards = ByTheRule(game.board, color)

\* C21: the boards enumerated by the search for a colour are exactly the
\* results of the moves that colour could make through Game.select on the
\* same board: if any piece of the colour has a capture, only pieces with
\* captures contribute and only their capturing destinations; otherwise
\* every piece contributes all its plain steps; each enumerated board has
\* the move applied and all pieces of the capture list removed.
C21_SearchMovesAreSelectMoves == []SearchMovesAreSelectMoves

\* the search has looked at Light's replies on a board where Light has to
\* capture and has a piece that could only step
C21_ForcedCaptureInTheSearch ==
    /\ game.ai
    /\ last.moved
    /\ game.turn = WHITE
    /\ ai_intelligence >= 2
    /\ MustCapture(game.board, WHITE)
    /\ \E p \in CellsOf(game.board, WHITE) :
           ~HasJump(game.board, p) /\ PlainSteps(game.board, p) # {}
    /\ get_all_moves(game.board, WHITE) # <<>>

\* ------------------------------------------------------------------------
\* The search with its objects.  Above, a board is a value and deepcopy is
\* the identity; here Board, grid and Piece are objects of a heap h, so that
\* what a call writes and what two boards share can be stated.
\*   h.grids[g]  = [cells, pieces]: the list of lists g and the Piece objects
\*                 it has held since it was made.  A cell holds 0, -1 for
\*                 'B', -2 for 'BK', or the number k of the Piece
\*                 h.grids[g].pieces[k]: the code puts a Piece into a grid
\*                 in create_board and deepcopy only, Board.move swaps two
\*                 cells of one grid.
\*   h.boards[b] = the fields of the Board object b, board being a grid
\*   h.game      = the fields of the Game object
\* A reference to a Piece, as the lists of get_valid_moves hold them, names
\* the grid and the number.
\* ------------------------------------------------------------------------
Slots == 100

Ref(g, k) == g * Slots + k

NoPiece == [row |-> -1, col |-> -1, color |-> "none", king |-> FALSE]

\* the Piece object behind a reference
piece_at(h, ref) == h.grids[ref \div Slots].pieces[ref % Slots]

\* Board.get_piece on objects: 0 or a reference
cell_of(h, bid, row, col) ==
    IF h.grids[h.boards[bid].board].cells[row][col] > 0
    THEN Ref(h.boards[bid].board, h.grids[h.boards[bid].board].cells[row][col])
    ELSE 0

\* what the code reads of the Board object bid: the board as a value
View(h, bid) ==
    [board |-> [r \in 0..(ROWS - 1) |-> [c \in 0..(COLS - 1) |->
                   IF cell_of(h, bid, r, c) > 0
                   THEN [color |-> piece_at(h, cell_of(h, bid, r, c)).color,
                         king  |-> piece_at(h, cell_of(h, bid, r, c)).king]
                   ELSE Empty]],
     black_left |-> h.boards[bid].black_left, white_left |-> h.boards[bid].white_left,
     black_kings |-> h.boards[bid].black_kings, white_kings |-> h.boards[bid].white_kings]

\* the objects of a game g: its Board is board 1 with grid 1, the Piece of
\* the cell (row, col) has the number row * COLS + col + 1
HeapOf(g) ==
    [grids  |-> << [cells  |-> [r \in 0..(ROWS - 1) |-> [c \in 0..(COLS - 1) |->
                                  IF g.board.board[r][c] = Empty THEN 0 ELSE r * COLS + c + 1]],
                    pieces |-> [k \in 1..(ROWS * COLS) |->
                                  IF g.board.board[(k - 1) \div COLS][(k - 1) % COLS] = Empty
                                  THEN NoPiece
                                  ELSE [row |-> (k - 1) \div COLS, col |-> (k - 1) % COLS,
                                        color |-> g.board.board[(k - 1) \div COLS][(k - 1) % COLS].color,
                                        king  |-> g.board.board[(k - 1) \div COLS][(k - 1) % COLS].king]]] >>,
     boards |-> << [board |-> 1,
                    black_left |-> g.board.black_left, white_left |-> g.board.white_left,
                    black_kings |-> g.board.black_kings, white_kings |-> g.board.white_kings] >>,
     game   |-> [board |-> 1, board_history |-> g.board_history, turn |-> g.turn,
                 selected |-> g.selected, valid_moves |-> g.valid_moves]]

\* pos = position.board, without the copy: the variant C22 has to tell from
\* the code
grid_itself(h, gid) == [h |-> h, id |-> gid]

\* minimax: pos = deepcopy(position.board), a new list of lists with new
\* Piece objects
deepcopy_grid(h, gid) ==
    [h  |-> [h EXCEPT !.grids = Append(@, h.grids[gid])],
     id |-> Len(h.grids) + 1]

\* get_all_moves: temp_board = deepcopy(board), a new Board with a new grid
deepcopy_board(h, bid) ==
    [h  |-> [h EXCEPT !.grids  = Append(@, h.grids[h.boards[bid].board]),
                      !.boards = Append(@, [h.boards[bid] EXCEPT !.board = Len(h.grids) + 1])],
     id |-> Len(h.boards) + 1]

\* Game.prepare_board_state on the grid gid, which it writes.  Every Piece
\* stands on the cell that holds it, so board[piece.row][piece.col] is the
\* cell the loops are at.
heap_prepare_board_state(h, gid) ==
    [h EXCEPT !.grids[gid].cells =
        [r \in 0..(ROWS - 1) |-> [c \in 0..(COLS - 1) |->
            IF h.grids[gid].cells[r][c] <= 0 THEN h.grids[gid].cells[r][c]
            ELSE IF h.grids[gid].pieces[h.grids[gid].cells[r][c]].color = WHITE THEN 0
            ELSE IF h.grids[gid].pieces[h.grids[gid].cells[r][c]].king THEN -2
            ELSE -1]]]

\* the prepared grid as the history holds it
snapshot_of(cells) ==
    [r \in 0..(ROWS - 1) |-> [c \in 0..(COLS - 1) |->
        IF cells[r][c] = -1 THEN "B" ELSE IF cells[r][c] = -2 THEN "BK" ELSE "0"]]

\* Board.move on objects: the two cells of the grid of bid are swapped, the
\* Piece gets its new row and col and, on row 0 or ROWS - 1, its king flag
heap_move(h, bid, ref, row, col) ==
    LET piece == piece_at(h, ref)
        gid   == h.boards[bid].board
        cells == h.grids[gid].cells
        edge  == row = ROWS - 1 \/ row = 0
        kinged == [piece EXCEPT !.row = row, !.col = col, !.king = edge \/ @]
        swapped == [h EXCEPT !.grids[gid].cells[piece.row][piece.col] = cells[row][col],
                             !.grids[gid].cells[row][col] = cells[piece.row][piece.col]]
        moved == [swapped EXCEPT !.grids[ref \div Slots].pieces[ref % Slots] = kinged]
    IN  IF edge
        THEN IF kinged.color = WHITE /\ ~kinged.king
             THEN [moved EXCEPT !.boards[bid].white_kings = @ + 1]
             ELSE [moved EXCEPT !.boards[bid].black_kings = @ + 1]
        ELSE moved

\* Board.remove on objects: row, col and colour are read from the Piece
\* objects of the list, the cells are those of the grid of bid
RECURSIVE heap_remove(_, _, _)
heap_remove(h, bid, refs) ==
    IF refs = <<>> \/ bid > Len(h.boards) THEN h
    ELSE LET piece == piece_at(h, Head(refs))
             gid   == h.boards[bid].board
         IN  heap_remove(IF piece.color = WHITE
                         THEN [h EXCEPT !.grids[gid].cells[piece.row][piece.col] = 0,
                                        !.boards[bid].white_left = @ - 1]
                         ELSE [h EXCEPT !.grids[gid].cells[piece.row][piece.col] = 0,
                                        !.boards[bid].black_left = @ - 1],
                         bid, Tail(refs))

\* simulate_move on objects
heap_simulate_move(h, ref, mv, bid, skip) ==
    IF skip # <<>>
    THEN heap_remove(heap_move(h, bid, ref, mv[1], mv[2]), bid, skip)
    ELSE heap_move(h, bid, ref, mv[1], mv[2])

\* the Piece objects on the cells of a list
refs_of(h, bid, cells) ==
    [i \in 1..Len(cells) |-> cell_of(h, bid, cells[i][1], cells[i][2])]

\* Board.get_all_pieces on objects: the Piece objects of the grid
heap_get_all_pieces(h, bid, color) == refs_of(h, bid, get_all_pieces(View(h, bid), color))

\* the dict of get_valid_moves with the Piece objects of the grid of bid in
\* its lists
items_of(h, bid, vm) ==
    << [i \in 1..Len(vm[1]) |-> <<vm[1][i][1], refs_of(h, bid, vm[1][i][2])>>], vm[2] >>

\* Board.get_valid_moves on objects: it writes nothing
heap_get_valid_moves(h, bid, ref) ==
    items_of(h, bid, get_valid_moves(View(h, bid), <<piece_at(h, ref).row, piece_at(h, ref).col>>))

\* get_all_moves on objects, the loop over valid_moves.items(): acc is
\* [h, moves], the heap and the list of the boards made so far.  The loops
\* are over the boards of a heap; the test of bid at their head has the heap
\* computed before the next round starts.
RECURSIVE heap_boards_of(_, _, _, _)
heap_boards_of(acc, bid, ref, items) ==
    IF items = <<>> \/ bid > Len(acc.h.boards) THEN acc
    ELSE LET temp_board == deepcopy_board(acc.h, bid)
             temp_piece == cell_of(temp_board.h, temp_board.id,
                                   piece_at(acc.h, ref).row, piece_at(acc.h, ref).col)
         IN  heap_boards_of([h |-> heap_simulate_move(temp_board.h, temp_piece, items[1][1],
                                                      temp_board.id, items[1][2]),
                             moves |-> Append(acc.moves, temp_board.id)],
                            bid, ref, Tail(items))

\* get_all_moves on objects, second loop
RECURSIVE heap_collect_moves(_, _, _, _)
heap_collect_moves(acc, bid, refs, skp) ==
    IF refs = <<>> \/ bid > Len(acc.h.boards) THEN acc
    ELSE LET vm == heap_get_valid_moves(acc.h, bid, Head(refs))
         IN  heap_collect_moves(IF skp /\ ~vm[2] THEN acc
                                ELSE heap_boards_of(acc, bid, Head(refs), vm[1]),
                                bid, Tail(refs), skp)

\* get_all_moves on objects: [h, moves]
heap_get_all_moves(h, bid, color) ==
    heap_collect_moves([h |-> h, moves |-> <<>>], bid, heap_get_all_pieces(h, bid, color),
                       any_skipped(View(h, bid), get_all_pieces(View(h, bid), color)))

\* minimax on objects, a terminal node: pos is the copy of the grid of
\* position; it is prepared and looked up in the history
heap_terminal(position, pos, prepared) ==
    [h     |-> prepared,
     score |-> IF InList(snapshot_of(prepared.grids[pos.id].cells), prepared.game.board_history)
               THEN [n |-> evaluate2(prepared.boards[position]),
                     d |-> 2 * (Len(prepared.game.board_history)
                                - index(prepared.game.board_history,
                                        snapshot_of(prepared.grids[pos.id].cells)))]
               ELSE [n |-> evaluate2(prepared.boards[position]), d |-> 2],
     move  |-> Some(position)]

\* minimax on objects: [h, score, move], move being None or a Board
RECURSIVE heap_minimax(_, _, _, _, _, _)
RECURSIVE heap_minimax_loop(_, _, _, _, _, _, _, _)
RECURSIVE heap_loop_body(_, _, _, _, _, _, _, _, _)

heap_loop_body(h, moves, i, depth, max_player, alpha, beta, best, score) ==
    LET better == IF max_player THEN Geq(score, best.score) ELSE Leq(score, best.score)
        bs == IF better THEN score ELSE best.score
        bm == IF better THEN Some(moves[i]) ELSE best.move
        a  == IF max_player THEN ScoreMax(alpha, bs) ELSE alpha
        bt == IF max_player THEN beta ELSE ScoreMin(beta, bs)
    IN  IF Leq(bt, a) THEN [h |-> h, score |-> bs, move |-> bm]
        ELSE heap_minimax_loop(h, moves, i + 1, depth, max_player, a, bt,
                               [score |-> bs, move |-> bm])

heap_minimax_loop(h, moves, i, depth, max_player, alpha, beta, best) ==
    IF i > Len(moves) THEN [h |-> h, score |-> best.score, move |-> best.move]
    ELSE LET below == heap_minimax(h, moves[i], depth - 1, ~max_player, alpha, beta)
         IN  heap_loop_body(below.h, moves, i, depth, max_player, alpha, beta, best, below.score)

heap_minimax(h, position, depth, max_player, alpha, beta) ==
    IF depth = 0 \/ winner(View(h, position)) # NoColor
    THEN LET pos == deepcopy_grid(h, h.boards[position].board)
         IN  heap_terminal(position, pos, heap_prepare_board_state(pos.h, pos.id))
    ELSE LET found == heap_get_all_moves(h, position, IF max_player THEN BLACK ELSE WHITE)
         IN  heap_minimax_loop(found.h, found.moves, 1, depth, max_player, alpha, beta,
                               [score |-> IF max_player THEN NegInf ELSE PosInf, move |-> None])

\* ------------------------------------------------------------------------
\* C22
\* ------------------------------------------------------------------------
\* the Board objects of a heap
Boards(h) == 1..Len(h.boards)

\* what a cell of the grid g holds, a Piece with its fields
Held(h, g, row, col) ==
    IF h.grids[g].cells[row][col] > 0
    THEN <<h.grids[g].cells[row][col], h.grids[g].pieces[h.grids[g].cells[row][col]]>>
    ELSE <<h.grids[g].cells[row][col], NoPiece>>

\* the Board object bid and everything it refers to: its fields, its grid
\* and the Piece objects in the grid
Object(h, bid) ==
    <<h.boards[bid],
      [r \in 0..(ROWS - 1) |-> [c \in 0..(COLS - 1) |-> Held(h, h.boards[bid].board, r, c)]]>>

\* the grid of bid holds Piece objects only, each standing on the cell that
\* holds it
OwnsItsPieces(h, bid) ==
    \A p \in Cells :
        \A x \in {h.grids[h.boards[bid].board].cells[p[1]][p[2]]} :
            \/ x = 0
            \/ /\ x > 0
               /\ h.grids[h.boards[bid].board].pieces[x].row = p[1]
               /\ h.grids[h.boards[bid].board].pieces[x].col = p[2]

\* no two Board objects share a grid
NothingShared(h) ==
    /\ \A bid \in Boards(h) : OwnsItsPieces(h, bid)
    /\ \A b1, b2 \in Boards(h) : b1 # b2 => h.boards[b1].board # h.boards[b2].board

\* the first move the colour has on the Board bid, made on bid itself
RECURSIVE FirstMoveOn(_, _, _)
FirstMoveOn(h, bid, refs) ==
    IF refs = <<>> THEN h
    ELSE IF heap_get_valid_moves(h, bid, Head(refs))[1] = <<>>
         THEN FirstMoveOn(h, bid, Tail(refs))
         ELSE heap_simulate_move(h, Head(refs),
                                 heap_get_valid_moves(h, bid, Head(refs))[1][1][1], bid,
                                 heap_get_valid_moves(h, bid, Head(refs))[1][1][2])

\* the heap after the first move Light has on the child was made on it
AfterFirstMove(h, child) == FirstMoveOn(h, child, heap_get_all_pieces(h, child, WHITE))

\* a move made on the child leaves every other Board of the heap as it was
MoveStaysInside(h, child) ==
    \A after \in {AfterFirstMove(h, child)} :
        \A other \in Boards(h) \ {child} : Object(after, other) = Object(h, other)

\* the call minimax(self.get_board(), self.ai_intelligence, True, self) on
\* the objects of the game
SearchOnObjects == heap_minimax(HeapOf(game), 1, ai_intelligence, TRUE, NegInf, PosInf)

\* the search on the objects of the game writes nothing but its copies
SearchWritesItsCopiesOnly ==
    \A before \in {HeapOf(game)} :
        /\ \A after \in {SearchOnObjects} :
              /\ Object(after.h, 1) = Object(before, 1)
              /\ View(after.h, 1) = game.board
              /\ after.h.game = before.game
              /\ NothingShared(after.h)
              /\ after.score = minimax(game.board, ai_intelligence, TRUE,
                                       game.board_history, NegInf, PosInf)[1]
        /\ \A found \in {heap_get_all_moves(before, 1, BLACK)} :
              /\ Object(found.h, 1) = Object(before, 1)
              /\ NothingShared(found.h)
              /\ [i \in 1..Len(found.moves) |-> View(found.h, found.moves[i])]
                     = get_all_moves(game.board, BLACK)
              /\ \A i \in 1..Len(found.moves) : MoveStaysInside(found.h, found.moves[i])

\* C22: a call to minimax leaves the board it was given (grid, piece
\* positions and king flags, the four counters) and the game's history, side
\* to move and selection unchanged, and the boards it enumerates are
\* independent: applying a move to one child changes neither its parent nor
\* any sibling board.
C22_SearchWritesItsCopiesOnly == []SearchWritesItsCopiesOnly

\* the search has several boards to enumerate and has gone on below them,
\* on each of them Light has a move that changes it, and on one a capture
C22_SearchWithCaptures ==
    /\ SearchOnObjects.move # None
    /\ Len(SearchOnObjects.h.boards) > 1 + Len(get_all_moves(game.board, BLACK))
    /\ \E found \in {heap_get_all_moves(HeapOf(game), 1, BLACK)} :
           /\ Len(found.moves) >= 2
           /\ \E i \in 1..Len(found.moves) :
                  MustCapture(View(found.h, found.moves[i]), WHITE)
           /\ \A i \in 1..Len(found.moves) :
                  Object(AfterFirstMove(found.h, found.moves[i]), found.moves[i])
                      # Object(found.h, found.moves[i])

\* ------------------------------------------------------------------------
\* C23
\* ------------------------------------------------------------------------
\* the indices, counted from 0, at which the history holds the snapshot of b
Matches(b, history) == {i \in 0..(Len(history) - 1) : history[i + 1] = Snapshot(b)}

Least(S) == CHOOSE i \in S : \A j \in S : i <= j

\* evaluate() divided by k
Evaluation(b, k) == [n |-> evaluate2(b), d |-> 2 * k]

\* the score of a terminal node is the one of the rule
TerminalRule(score, b, history) ==
    IF Matches(b, history) = {}
    THEN ScoreEq(score, Evaluation(b, 1))
    ELSE \A k \in {Len(history) - Least(Matches(b, history))} :
            /\ ScoreEq(score, Evaluation(b, k))
            /\ k >= 1
            /\ k <= Len(history)
            /\ (0 \in Matches(b, history) => k = Len(history))
            /\ \A i \in Matches(b, history) : Len(history) - i <= k

\* the board of the game and the boards one Dark move below it
NodesBelow == {game.board} \cup LegalReplies(game.board, BLACK)

\* the nodes at which minimax returns at once: depth 0, or any depth when
\* the board has a winner
TerminalCalls(b) ==
    IF winner(b) # NoColor THEN 0..ai_intelligence ELSE {0}

\* the terminal calls on the boards at and below the board of the game
\* return the score of the rule and the board itself
TerminalScore ==
    \A b \in NodesBelow : \A depth \in TerminalCalls(b) : \A max_player \in BOOLEAN :
        \A result \in {minimax(b, depth, max_player, game.board_history, NegInf, PosInf)} :
            /\ TerminalRule(result[1], b, game.board_history)
            /\ result[2] = Some(b)

\* C23: at a terminal search node (depth 0 or a winner exists) the returned
\* score is evaluate() when the node's normalized snapshot is not in the
\* history, and otherwise evaluate() divided by (len(history) - i) where i
\* is the smallest index of an equal snapshot (index 0 is the most recent);
\* the divisor is always between 1 and len(history), so it is never zero
\* and a match with the most recent snapshot gives the largest divisor.
C23_TerminalScore == []TerminalScore

\* the board of the game is the most recent snapshot of a full history and
\* its evaluation is not 0: the score of the node is not evaluate()
C23_DividedScores ==
    /\ Len(game.board_history) = history_length
    /\ history_length >= 2
    /\ 0 \in Matches(game.board, game.board_history)
    /\ evaluate2(game.board) # 0
    /\ ~ScoreEq(minimax(game.board, 0, TRUE, game.board_history, NegInf, PosInf)[1],
                Evaluation(game.board, 1))

\* ------------------------------------------------------------------------
\* C24
\* ------------------------------------------------------------------------
\* every Light piece on row 0 and every Dark piece on row ROWS - 1 is a king
Crowned(b) ==
    /\ \A p \in CellsOf(b, WHITE) : p[1] = 0 => PieceAt(b, p).king
    /\ \A p \in CellsOf(b, BLACK) : p[1] = ROWS - 1 => PieceAt(b, p).king

\* after is b with the piece of p moved to t: the piece has kept its colour
\* and, if it was a king, its rank; every other piece is where and what it
\* was, or gone
KingsStay(b, p, t, after) ==
    /\ PieceAt(after, t).color = PieceAt(b, p).color
    /\ PieceAt(b, p).king => PieceAt(after, t).king
    /\ PieceAt(after, p) = Empty
    /\ \A q \in Cells \ {p, t} : PieceAt(after, q) \in {PieceAt(b, q), Empty}

\* the board of the game and the boards of the search are crowned, and a
\* move keeps the kings
EdgePiecesAreKings ==
    /\ Crowned(game.board)
    /\ \A b1 \in Range(get_all_moves(game.board, BLACK)) :
          /\ Crowned(b1)
          /\ \A b2 \in Range(get_all_moves(b1, WHITE)) : Crowned(b2)
    /\ \A p \in PieceCells(game.board) :
          \A t \in dict_keys(get_valid_moves(game.board, p)[1]) :
              KingsStay(game.board, p, t, Moved(game.board, p, t))

\* C24: in every reachable state, and on every board produced inside the
\* search, every Light piece standing on row 0 and every Dark piece standing
\* on row 7 is a king, and a king never becomes a non-king again.
C24_EdgePiecesAreKings == []EdgePiecesAreKings

\* a piece stands on the row where it was crowned, and a king that has left
\* that row is still a king after the last move
C24_KingAwayFromItsRow ==
    /\ last.moved
    /\ \/ \E p \in CellsOf(game.board, WHITE) : p[1] = 0
       \/ \E p \in CellsOf(game.board, BLACK) : p[1] = ROWS - 1
    /\ \E p \in PieceCells(game.board) :
          PieceAt(game.board, p).king /\ p[1] \notin {0, ROWS - 1}

\* ------------------------------------------------------------------------
\* C25
\* ------------------------------------------------------------------------
\* C25: whenever a piece is selected after a Game.select call returns, that
\* piece is the occupant of its own (row, col) cell on the game's current
\* board (not a piece of a board replaced by the automated move), its colour
\* is the side to move, and the stored destination map equals
\* Board.get_valid_moves of that piece on the current board; whenever no
\* piece is selected the destination map is empty.
C25_SelectionOfTheCurrentBoard ==
    IF game.selected = None
    THEN game.valid_moves = <<>>
    ELSE \A p \in {game.selected} :
            /\ p \in PieceCells(game.board)
            /\ PieceAt(game.board, p).color = game.turn
            /\ game.valid_moves = get_valid_moves(game.board, p)[1]

\* the call has moved a Light piece, the automated opponent has replaced the
\* board, and the piece is selected on the new board with its destinations
C25_SelectedAfterTheReply ==
    /\ game.ai
    /\ last.moved
    /\ game.selected = Clicked
    /\ game.valid_moves # <<>>
    /\ game.board_history # <<>>

\* ------------------------------------------------------------------------
\* C26
\* ------------------------------------------------------------------------
\* the score of the pruned search is the exact one on the board of the game
PrunedScoreIsExact ==
    \A depth \in 0..ai_intelligence :
        ScoreEq(minimax(game.board, depth, TRUE, game.board_history, NegInf, PosInf)[1],
                ExactValue(game.board, depth, TRUE, game.board_history))

\* C26: the score returned by the root call of minimax with alpha-beta
\* pruning (initial window -infinity, +infinity) equals the score of the
\* same depth-limited minimax computed without any cutoff, for every board,
\* depth and history.
C26_PrunedScoreIsExact == []PrunedScoreIsExact

\* the search, in a game with a history and on a board whose value is not
\* 0, has cut a loop short: every board below the root has been
\* expanded, and fewer grids have been copied for terminal nodes than there
\* are boards two moves below the root
C26_LoopCutShort ==
    /\ ai_intelligence = 2
    /\ game.board_history # <<>>
    /\ ExactValue(game.board, ai_intelligence, TRUE, game.board_history).n # 0
    /\ winner(game.board) = NoColor
    /\ \A b \in Range(get_all_moves(game.board, BLACK)) :
          winner(b) = NoColor /\ get_all_moves(b, WHITE) # <<>>
    /\ \A after \in {SearchOnObjects} :
          Len(after.h.grids) - Len(after.h.boards)
              < Len(after.h.boards) - 1 - Len(get_all_moves(game.board, BLACK))

====
